---- MODULE Spec2Model ----
(***************************************************************************)
(* The client-side telemetry delivery pipeline of AutoTraceSDK             *)
(* (aip-client): the EventBatcher (batching.ts), the retrying sender with  *)
(* its circuit breaker (sending.ts) and the JavaScript event loop that     *)
(* interleaves them.  One action is one run-to-completion piece of code:   *)
(* a handler from its entry to the first await that really suspends (a     *)
(* network call or a timer), or from the resumption of such an await to    *)
(* the next one.                                                           *)
(***************************************************************************)
EXTENDS Integers, Sequences, FiniteSets, TLC

\* ------------------------------------------------------------------ bounds
\* Number of add() calls a behaviour makes.
MaxAdds == 4
\* request_ids are drawn from 1..NumIds.
NumIds == 3
\* The clock (Date.now(), in ticks) runs from 0 to MaxTime.
MaxTime == 1
\* Number of direct calls of the sender function in SenderSpec.
MaxDelivers == 8
\* config.batchSize (10 by default, batching.ts line 40), scaled down.
batchSize == 2
\* EventBatcher.maxDedupeSize (1000 in batching.ts line 32), scaled down so
\* that eviction from the dedup window happens within MaxAdds calls.
maxDedupeSize == 2
\* CIRCUIT_RESET_MS (30000 ms in sending.ts line 94), in clock ticks.
CIRCUIT_RESET_MS == 1
\* Length of a request_id (a UUID has 36 characters).
RequestIdLen == 8
\* Number of calls of the error handler for one response.
MaxHandlerCalls == 2
\* The number of clock ticks in one hour (the aggregator's windows are hours).
TicksPerHour == 2
\* The aggregator's clock runs from 0 to MaxClock ticks.
MaxClock == 3
MaxEnds == 2
MaxDirect == 1

\* ------------------------------------------------------- program constants
\* EventBatcher.maxRetries
maxRetries == 3
\* sending.ts MAX_RETRIES
MAX_RETRIES == 3
\* sending.ts CIRCUIT_THRESHOLD
CIRCUIT_THRESHOLD == 5
\* successes needed in HALF_OPEN (the literal 3 of shouldAllowRequest and
\* updateCircuitState)
HALF_OPEN_SUCCESSES == 3
\* lastFailureTime: number | null
NULL == -1
\* MAX_WINDOWS of the aggregator service
MAX_WINDOWS == 744

Ids == 1..NumIds

\* A TelemetryEvent: its request_id, and seq, the ordinal of the add() call
\* that carried it (the identity of the event object).
Event(id, n) == [request_id |-> id, seq |-> n]

Range(s) == {s[i] : i \in 1..Len(s)}

\* ---------------------------------------------------------- circuit breaker
createInitialCircuitState ==
  [state |-> "CLOSED", failureCount |-> 0, lastFailureTime |-> NULL,
   successCount |-> 0]

\* a gate that lets every request through an OPEN breaker
C5_WindowAlwaysElapsed(t, lastFailure, resetMs) == TRUE

\* shouldAllowRequest: timeSinceFailure >= resetMs

WindowElapsed(t, lastFailure, resetMs) == (t - lastFailure) >= resetMs

\* a HALF_OPEN breaker that admits no request
C30_HalfOpenBlocks(cs) == FALSE

\* shouldAllowRequest: state.successCount < 3 in HALF_OPEN
HalfOpenAllows(cs) == cs.successCount < HALF_OPEN_SUCCESSES

\* shouldAllowRequest(state, resetMs), with Date.now() passed as t
shouldAllowRequest(cs, resetMs, t) ==
  IF cs.state = "CLOSED" THEN TRUE
  ELSE IF cs.state = "OPEN"
       THEN IF cs.lastFailureTime = NULL THEN TRUE
            ELSE WindowElapsed(t, cs.lastFailureTime, resetMs)
  ELSE IF cs.state = "HALF_OPEN" THEN HalfOpenAllows(cs)
  ELSE TRUE

\* a threshold test that opens the breaker one failure late
C4_AboveThreshold(n, threshold) == n > threshold

\* updateCircuitState: newFailureCount >= threshold
ReachesThreshold(n, threshold) == n >= threshold

\* a HALF_OPEN breaker that never closes
C6_ProbesNeverDone(n) == FALSE

\* updateCircuitState: newSuccessCount >= 3
ProbesDone(n) == n >= HALF_OPEN_SUCCESSES

\* a failure in HALF_OPEN that is counted without re-opening the breaker
C7_StayHalfOpen(cs, t) ==
  [cs EXCEPT !.failureCount = cs.failureCount + 1, !.lastFailureTime = t]

\* updateCircuitState: the result of a failure in HALF_OPEN
HalfOpenFailure(cs, t) ==
  [state |-> "OPEN", failureCount |-> cs.failureCount + 1,
   lastFailureTime |-> t, successCount |-> 0]

\* a success in CLOSED that keeps the failures counted so far
C29_KeepCount(cs) == cs

\* updateCircuitState: the result of a success in CLOSED
ClosedSuccess(cs) == [cs EXCEPT !.failureCount = 0]

\* a breaker that forgets the failures it counted when it opens
C31_TripForgetsCount(cs, t) ==
  [state |-> "OPEN", failureCount |-> 0, lastFailureTime |-> t,
   successCount |-> 0]

\* updateCircuitState: the result of the failure in CLOSED that reaches the
\* threshold
Trip(cs, t) ==
  [state |-> "OPEN", failureCount |-> cs.failureCount + 1,
   lastFailureTime |-> t, successCount |-> 0]

\* updateCircuitState(state, success, threshold), with Date.now() passed as t
updateCircuitState(cs, success, threshold, t) ==
  IF success
  THEN IF cs.state = "CLOSED" THEN ClosedSuccess(cs)
       ELSE IF cs.state = "HALF_OPEN"
            THEN IF ProbesDone(cs.successCount + 1)
                 THEN createInitialCircuitState
                 ELSE [cs EXCEPT !.successCount = cs.successCount + 1]
       ELSE cs
  ELSE IF cs.state = "CLOSED"
       THEN IF ReachesThreshold(cs.failureCount + 1, threshold)
            THEN Trip(cs, t)
            ELSE [cs EXCEPT !.failureCount = cs.failureCount + 1,
                            !.lastFailureTime = t]
  ELSE IF cs.state = "HALF_OPEN" THEN HalfOpenFailure(cs, t)
  ELSE [cs EXCEPT !.lastFailureTime = t]

\* ------------------------------------------------------------------- sender
\* a sender that leaves the breaker OPEN when the gate lets a call through
C28_StaysOpen(cs) == cs

\* createSender: the move from OPEN to HALF_OPEN of a call the gate let
\* through (lines 139-141)
ProbeState(cs) ==
  IF cs.state = "OPEN"
  THEN [cs EXCEPT !.state = "HALF_OPEN", !.successCount = 0]
  ELSE cs

\* The sender function returned by createSender, from its entry to its first
\* suspension: the empty-batch return, the gate, the OPEN -> HALF_OPEN move.
\* pc = "fetch": sendHttpRequest of attempt 1 is in flight.
SenderEnter(cs, events, t) ==
  IF Len(events) = 0
  THEN [pc |-> "return", result |-> TRUE, cs |-> cs, gate |-> "empty"]
  ELSE IF ~shouldAllowRequest(cs, CIRCUIT_RESET_MS, t)
       THEN [pc |-> "return", result |-> FALSE, cs |-> cs, gate |-> "denied"]
  ELSE [pc |-> "fetch", result |-> FALSE, gate |-> "allowed",
        cs |-> ProbeState(cs)]

\* What one transport attempt meets: a 2xx response, another response, the
\* abort after TIMEOUT_MS, a network-level exception of fetch, or
\* JSON.stringify failing on the payload.
Outcomes == {"2xx", "non-2xx", "timeout", "network", "serialize"}

\* a transport that lets the exception of fetch escape
C15_Uncaught(outcome) ==
  IF outcome = "2xx"
  THEN [settled |-> "resolved", success |-> TRUE, error |-> ""]
  ELSE IF outcome = "non-2xx"
       THEN [settled |-> "resolved", success |-> FALSE, error |-> "HTTP"]
  ELSE IF outcome = "timeout"
       THEN [settled |-> "resolved", success |-> FALSE,
             error |-> "Request timeout"]
  ELSE [settled |-> "rejected"]

\* sendHttpRequest(): how its promise settles.  Everything from building the
\* payload to reading the response is inside one try block whose catch
\* returns a failure result.
sendHttpRequest(outcome) ==
  IF outcome = "2xx"
  THEN [settled |-> "resolved", success |-> TRUE, error |-> ""]
  ELSE IF outcome = "non-2xx"
       THEN [settled |-> "resolved", success |-> FALSE, error |-> "HTTP"]
  ELSE IF outcome = "timeout"
       THEN [settled |-> "resolved", success |-> FALSE,
             error |-> "Request timeout"]
  ELSE [settled |-> "resolved", success |-> FALSE, error |-> "message"]

\* a retry loop that a successful attempt does not end
C27_SuccessIgnored(ok) == FALSE

\* createSender: "if (result.success)" in the retry loop
EndsLoop(ok) == ok

\* a retry loop that makes one attempt too many
C8_OneMoreAttempt(attempt) == attempt <= MAX_RETRIES

\* The sender's "attempt < maxRetries" before its backoff sleep; with the
\* loop condition "attempt <= maxRetries" it decides whether a further
\* attempt follows a failed one.
SenderRetries(attempt) == attempt < MAX_RETRIES

\* A sender that applies the failure transition after every failed attempt.
C9_ApplyEachAttempt(cs, attempt, ok, t) ==
  IF ok
  THEN [pc |-> "return", result |-> TRUE, applied |-> "success",
        cs |-> updateCircuitState(cs, TRUE, CIRCUIT_THRESHOLD, t)]
  ELSE [pc |-> IF SenderRetries(attempt) THEN "backoff" ELSE "return",
        result |-> FALSE, applied |-> "failure",
        cs |-> updateCircuitState(cs, FALSE, CIRCUIT_THRESHOLD, t)]

\* The sender's loop body once sendHttpRequest has resolved with success = ok
\* (sendHttpRequest catches every error and never rejects).  applied names the
\* updateCircuitState call made, if any.
SenderResume(cs, attempt, ok, t) ==
  IF EndsLoop(ok)
  THEN [pc |-> "return", result |-> TRUE, applied |-> "success",
        cs |-> updateCircuitState(cs, TRUE, CIRCUIT_THRESHOLD, t)]
  ELSE IF SenderRetries(attempt)
       THEN [pc |-> "backoff", result |-> FALSE, applied |-> "none", cs |-> cs]
  ELSE [pc |-> "return", result |-> FALSE, applied |-> "failure",
        cs |-> updateCircuitState(cs, FALSE, CIRCUIT_THRESHOLD, t)]

\* ------------------------------------------------------------------ batcher
\* a deduplication check that never finds the id
C1_NeverHit(ids, id) == FALSE

\* add(): the deduplication check

DedupHit(ids, id) == id \in Range(ids)

\* a window that makes room by dropping the id recorded last
C32_EvictNewest(ids, id) ==
  IF Len(ids) >= maxDedupeSize
  THEN Append(SubSeq(ids, 1, maxDedupeSize - 1), id)
  ELSE Append(ids, id)

\* add(): record the id, evicting the oldest one beyond maxDedupeSize
\* (a JavaScript Set iterates in insertion order; slice(1) drops the first)
RecordId(ids, id) ==
  LET added1 == Append(ids, id)
  IN  IF Len(added1) > maxDedupeSize THEN Tail(added1) ELSE added1

\* a queue that takes the new event at its head
C33_Unshift(q, event) == <<event>> \o q

\* an add() that overwrites what is pending
C36_ReplaceQueue(q, event) == <<event>>

\* add(): this.queue.push(event)
Enqueue(q, event) == Append(q, event)

\* an add() without the size trigger
C35_NoTrigger(q) == FALSE

\* a size trigger that fires one event late
C10_TriggerAbove(q) == Len(q) > batchSize

\* add(): the size trigger

SizeTrigger(q) == Len(q) >= batchSize

\* a getEvents() that copies the queue without clearing it
C2_KeepQueue(q) == [events |-> q, queue |-> q]

\* getEvents(): the snapshot and the queue it leaves
getEvents(q) ==
  IF Len(q) = 0 THEN [events |-> <<>>, queue |-> q]
  ELSE [events |-> q, queue |-> <<>>]

\* autoFlush(): the loop body once the sender's promise has settled with
\* `successful` on attempt `attempt`: "done" leaves the loop (and runs the
\* finally block), "sleep" waits 500 ms before the next attempt.
FlushResume(attempt, successful) ==
  IF successful THEN "done"
  ELSE IF attempt < maxRetries THEN "sleep"
  ELSE "done"

\* ---------------------------------------------------------- sampling engine
\* (middleware.ts of the client package)  JavaScript values: an object is a
\* record whose optional properties may be absent; a number is the rational
\* num/den with den > 0, or NaN; a string is the sequence of its characters
\* (request_id and hashSalt: of their character codes).
Has(o, f) == f \in DOMAIN o

Number(n, d) == [type |-> "number", num |-> n, den |-> d]
NaN == [type |-> "NaN"]
Boolean(b) == [type |-> "boolean", value |-> b]
Undefined == [type |-> "undefined"]

\* typeof x === 'number'
TypeofNumber(x) == x.type \in {"number", "NaN"}

\* clampRate(value)
clampRate(value) ==
  IF value.type = "NaN" THEN Number(0, 1)
  ELSE IF value.num < 0 THEN Number(0, 1)
  ELSE IF value.num > value.den THEN Number(1, 1)
  ELSE value

\* rate * pr
Times(a, b) ==
  IF a.type = "NaN" \/ b.type = "NaN" THEN NaN
  ELSE Number(a.num * b.num, a.den * b.den)

\* matches(): new RegExp(`^${escaped}$`).test(route).  The first replace
\* escapes the special characters but not '*', so the second replace finds
\* no "\*" to turn into ".*" (the pattern holds no backslash): each '*' of
\* the pattern stays in the regular expression as the repetition of the
\* character before it.  j is the position in the pattern, i in the route.
RECURSIVE RegExpTest(_, _, _, _)
RegExpTest(route, i, pattern, j) ==
  IF j > Len(pattern) THEN i > Len(route)
  ELSE IF j < Len(pattern) /\ pattern[j + 1] = "*"
       THEN \/ RegExpTest(route, i, pattern, j + 2)
            \/ /\ i <= Len(route)
               /\ route[i] = pattern[j]
               /\ RegExpTest(route, i + 1, pattern, j)
  ELSE /\ i <= Len(route)
       /\ route[i] = pattern[j]
       /\ RegExpTest(route, i + 1, pattern, j + 1)

\* matches(route, pattern)
matches(route, pattern) ==
  IF Len(route) = 0 THEN FALSE
  ELSE IF "*" \in Range(pattern) THEN RegExpTest(route, 1, pattern, 1)
  ELSE route = pattern

\* the callback of statusRules.find
StatusRuleMatches(rule, status_code) ==
  \/ Has(rule, "statuses") /\ status_code \in rule.statuses
  \/ /\ Has(rule, "min") /\ Has(rule, "max")
     /\ status_code >= rule.min /\ status_code <= rule.max

\* Array.prototype.find: of the indices of the rules that match, the first
\* one, 0 if there is none
FindRule(hits) ==
  IF hits = {} THEN 0 ELSE CHOOSE i \in hits : \A j \in hits : i <= j

\* A 32-bit integer is kept as two 16-bit limbs [hi, lo].
Limb == 2^16

\* getProbability(): hash = (hash << 5) - hash + chr; hash |= 0, that is
\* 31 * hash + chr modulo 2^32
HashStep(hash, chr) ==
  LET lo == 31 * hash.lo + chr
      hi == 31 * hash.hi + (lo \div Limb)
  IN  [hi |-> hi % Limb, lo |-> lo % Limb]

\* getProbability(): the loop over the characters of input, from hash = 0
RECURSIVE HashLoop(_, _, _)
HashLoop(input, i, hash) ==
  IF i > Len(input) THEN hash
  ELSE HashLoop(input, i + 1, HashStep(hash, input[i]))

\* getProbability(input) < rate for 0 < rate < 1, where getProbability is
\* (hash >>> 0) / 0xffffffff: hash * den < num * (2^32 - 1), limb by limb
ProbabilityBelow(input, rate) ==
  LET hash == HashLoop(input, 1, [hi |-> 0, lo |-> 0])
      l0 == rate.den * hash.lo
      l1 == rate.den * hash.hi + (l0 \div Limb)
      r0 == rate.num * (Limb - 1)
      r1 == rate.num * (Limb - 1) + (r0 \div Limb)
  IN  l1 < r1 \/ (l1 = r1 /\ (l0 % Limb) < (r0 % Limb))

\* shouldSampleEvent: the rate after samplingRate, routeRules and statusRules
\* (lines 124-149)
OverrideRate(event, sampling) ==
  LET base == clampRate(IF Has(sampling, "samplingRate")
                        THEN sampling.samplingRate ELSE Number(1, 1))
      r == IF Has(sampling, "routeRules")
           THEN FindRule({i \in 1..Len(sampling.routeRules) :
                            matches(event.route,
                                    sampling.routeRules[i].pattern)})
           ELSE 0
      afterRoute == IF r # 0 THEN clampRate(sampling.routeRules[r].rate)
                    ELSE base
      s == IF Has(sampling, "statusRules")
           THEN FindRule({i \in 1..Len(sampling.statusRules) :
                            StatusRuleMatches(sampling.statusRules[i],
                                              event.status_code)})
           ELSE 0
      afterStatus == IF s # 0 THEN clampRate(sampling.statusRules[s].rate)
                     ELSE afterRoute
  IN  afterStatus

\* a priority adjustment that multiplies by any number returned
C25_AnyNumber(sampling, pr, rate) ==
  IF Has(sampling, "prioritySampler") /\ pr.type = "number"
  THEN clampRate(Times(rate, pr))
  ELSE rate

\* shouldSampleEvent: the priority adjustment (lines 151-156); pr is what
\* prioritySampler returned
PriorityRate(sampling, pr, rate) ==
  IF Has(sampling, "prioritySampler") /\ pr.type = "number" /\ 0 < pr.num
  THEN clampRate(Times(rate, pr))
  ELSE rate

\* shouldSampleEvent: the rate after samplingRate, routeRules, statusRules
\* and prioritySampler (lines 124-156)
RuleRate(event, sampling, pr) ==
  PriorityRate(sampling, pr, OverrideRate(event, sampling))

\* a numeric custom decision that multiplies the rate
C24_CustomTimesRate(sampling, custom, rate) ==
  IF Has(sampling, "customSampler") /\ TypeofNumber(custom)
  THEN clampRate(Times(rate, custom))
  ELSE rate

\* shouldSampleEvent: the rate after a numeric result of customSampler
\* (lines 163-165); custom is what customSampler returned
CustomRate(sampling, custom, rate) ==
  IF Has(sampling, "customSampler") /\ TypeofNumber(custom)
  THEN clampRate(custom)
  ELSE rate

\* a decision without the error override
C21_NoErrorOverride(event, sampling) == FALSE

\* shouldSampleEvent: the error override (lines 115-118); event.error_type is
\* truthy when the property is there and is not the empty string
ErrorOverride(event, sampling) ==
  /\ IF Has(sampling, "alwaysSampleErrors")
     THEN sampling.alwaysSampleErrors ELSE TRUE
  /\ \/ event.status_code >= 400
     \/ Has(event, "error_type") /\ event.error_type # ""

\* a slow override for durations strictly above the threshold
C22_StrictlySlower(event, sampling) ==
  /\ Has(sampling, "alwaysSampleSlow")
  /\ sampling.alwaysSampleSlow.type = "number"
  /\ event.duration_ms * sampling.alwaysSampleSlow.den
       > sampling.alwaysSampleSlow.num

\* shouldSampleEvent: the slow override (lines 120-122); a comparison with
\* NaN is false
SlowOverride(event, sampling) ==
  /\ Has(sampling, "alwaysSampleSlow")
  /\ sampling.alwaysSampleSlow.type = "number"
  /\ event.duration_ms * sampling.alwaysSampleSlow.den
       >= sampling.alwaysSampleSlow.num

\* shouldSampleEvent: the always-sample overrides (lines 115-122)
AlwaysSample(event, sampling) ==
  ErrorOverride(event, sampling) \/ SlowOverride(event, sampling)

\* shouldSampleEvent: the final threshold check (lines 168-176)
ThresholdCheck(event, sampling, rate) ==
  IF rate.num >= rate.den THEN TRUE
  ELSE IF rate.num <= 0 THEN FALSE
  ELSE ProbabilityBelow(event.request_id \o
                          (IF Has(sampling, "hashSalt")
                           THEN sampling.hashSalt ELSE <<>>),
                        rate)

\* shouldSampleEvent(req, event, sampling).  The request reaches the decision
\* only through the two callbacks: context.pr and context.custom are what
\* prioritySampler and customSampler return in this call.
shouldSampleEvent(context, event, sampling) ==
  IF sampling = Undefined THEN TRUE
  ELSE IF AlwaysSample(event, sampling) THEN TRUE
  ELSE LET rate == RuleRate(event, sampling, context.pr) IN
       IF Has(sampling, "customSampler") /\ context.custom.type = "boolean"
       THEN context.custom.value
       ELSE ThresholdCheck(event, sampling,
                           CustomRate(sampling, context.custom, rate))

\* ------------------------------------------------ request instrumentation hook
\* (createAutoTraceMiddleware)  The state of one request: the closure of one
\* call of autoTraceMiddleware with the response object it instruments, and
\* what the hook has done so far.
Null == [type |-> "null"]

Error(name, message) == [type |-> "Error", name |-> name, message |-> message]

\* err instanceof Error ? err : new Error(String(err))
AsError(err) == IF err.type = "Error" THEN err ELSE Error("Error", err.value)

\* s || default, for strings
OrElse(s, default) == IF s = "" THEN default ELSE s

\* req.route?.path || req.path
RoutePath(req) ==
  IF Has(req, "route") /\ req.route.path # <<>> THEN req.route.path
  ELSE req.path

\* config.sampling
SamplingOf(config) ==
  IF Has(config, "sampling") THEN config.sampling ELSE Undefined

\* What the two sampler callbacks of the configuration may return in one
\* call (a callback is given as the set of its possible results).
Contexts(sampling) ==
  [pr : IF Has(sampling, "prioritySampler")
        THEN sampling.prioritySampler ELSE {Undefined},
   custom : IF Has(sampling, "customSampler")
            THEN sampling.customSampler ELSE {Undefined}]

\* The request as Express hands it to the middleware.
NewRequest(config, req) ==
  [pc |-> "idle", config |-> config, req |-> req,
   requestId |-> <<>>, startTime |-> 0,
   caughtError |-> Null, hasLogged |-> FALSE,
   statusCode |-> 200, locals |-> [errorType |-> "", errorMessage |-> ""],
   listeners |-> {}, mapped |-> FALSE,
   nextCalls |-> <<>>, forwarded |-> <<>>, fired |-> {}, source |-> "none",
   built |-> <<>>, sampled |-> <<>>, handed |-> <<>>]

\* logEvent(): the event without error fields (lines 40-48)
BaseEvent(h, t) ==
  [request_id |-> h.requestId, route |-> RoutePath(h.req),
   status_code |-> h.statusCode, duration_ms |-> t - h.startTime]

WithError(e, type, message) ==
  [request_id |-> e.request_id, route |-> e.route,
   status_code |-> e.status_code, duration_ms |-> e.duration_ms,
   error_type |-> type, error_message |-> message]

\* an event that prefers res.locals to the error the hook caught
C18_LocalsFirst(h, t) ==
  LET e == BaseEvent(h, t) IN
  IF h.locals.errorType # ""
  THEN WithError(e, h.locals.errorType, h.locals.errorMessage)
  ELSE IF h.caughtError # Null
       THEN WithError(e, OrElse(h.caughtError.name, "Error"),
                      OrElse(h.caughtError.message, "Unknown Error"))
  ELSE IF h.statusCode >= 400 THEN WithError(e, "HTTP_ERROR", "")
  ELSE e

\* logEvent(): the event constructed (lines 40-59)
BuildEvent(h, t) ==
  LET e == BaseEvent(h, t) IN
  IF h.caughtError # Null
  THEN WithError(e, OrElse(h.caughtError.name, "Error"),
                 OrElse(h.caughtError.message, "Unknown Error"))
  ELSE IF h.locals.errorType # ""
       THEN WithError(e, h.locals.errorType, h.locals.errorMessage)
  ELSE IF h.statusCode >= 400 THEN WithError(e, "HTTP_ERROR", "")
  ELSE e

\* a completion callback without its guard
C11_NeverLogged(h) == FALSE

\* logEvent(): the hasLogged guard
AlreadyLogged(h) == h.hasLogged

\* a hook that hands every event to the batcher
C20_HandAll(handed, event, sampled) == Append(handed, event)

\* logEvent(): the events handed to batcher.add after `event` was built
HandOver(handed, event, sampled) ==
  IF sampled THEN Append(handed, event) ELSE handed

\* logEvent(), called at time t; context holds what the sampler callbacks
\* return if shouldSampleEvent calls them
logEvent(h, t, context) ==
  IF AlreadyLogged(h) THEN h
  ELSE LET event == BuildEvent(h, t)
           keep == shouldSampleEvent(context, event, SamplingOf(h.config))
       IN [h EXCEPT !.hasLogged = TRUE,
                    !.built = Append(@, event),
                    !.sampled = Append(@, [keep |-> keep,
                                           context |-> context]),
                    !.handed = HandOver(@, event, keep),
                    !.mapped = FALSE]

\* a flush that puts the events of a failed snapshot back in the queue
C12_Requeue(q, events, successful) == IF successful THEN q ELSE events \o q

\* autoFlush(): the pending queue once the loop over the attempts has ended
\* for the snapshot `events`: neither a delivered nor a failed snapshot is
\* put back (after the loop only the finally block runs)
FlushEnd(q, events, successful) == q

\* --------------------------------------------------------------- aggregator
\* (AggregatorService and the /aggregator routes of the ingestion service)
\* A Date is a number of clock ticks; an ISO timestamp string is given by the
\* Date it parses to, NULL if it does not parse.  An aggregation job is a
\* suspended activation of runBatches: its batches, the index of the batch
\* whose computeHourlyAggregates call it awaits, and who called it.
IsoString(d) == [type |-> "string", date |-> d]

\* new AggregatorService(cfg), with the clock of the process; reply is
\* history: what the last step of the service was and how it was answered
AggregatorService(runOnStartup) ==
  [timer |-> FALSE, runOnStartup |-> runOnStartup, busy |-> FALSE,
   last |-> NULL, jobs |-> {}, clock |-> 0,
   reply |-> [request |-> "none", running |-> FALSE, reached |-> "none",
              status |-> 0]]

\* align(d): the minutes, seconds and milliseconds set to 0
align(d) == d - (d % TicksPerHour)

\* the loop of runRange and buildWindows: the hourly windows from cursor up
\* to the first window end that is not before `end`
HourlyWindows(cursor, end) ==
  LET n == IF cursor < end
           THEN (end - cursor + TicksPerHour - 1) \div TicksPerHour ELSE 0
  IN  [k \in 1..n |-> [s |-> cursor + (k - 1) * TicksPerHour,
                       e |-> cursor + k * TicksPerHour]]

\* buildWindows(): the pending windows, or the error thrown
buildWindows(a) ==
  LET current == align(a.clock)
      baseCandidate == IF a.last = NULL THEN current - TicksPerHour
                       ELSE a.last
      base == IF baseCandidate > current THEN current ELSE baseCandidate
      windows == HourlyWindows(base, current)
  IN  IF Len(windows) > MAX_WINDOWS THEN [threw |-> "Error"]
      ELSE [threw |-> "nothing", windows |-> windows]

\* a service without its busy guard
C26_NoBusyGuard(a) == FALSE

\* runBatches(): the busy guard
AggregatorBusy(a) == a.busy

\* runBatches(batches), up to its first await: the service after it, and
\* how the call stands (an error thrown, or pending)
runBatches(a, batches, origin) ==
  IF AggregatorBusy(a)
  THEN [service |-> a, reached |-> "runBatches",
        outcome |-> "AggregatorBusyError"]
  ELSE [service |-> [a EXCEPT !.busy = TRUE,
                              !.jobs = @ \cup {[batches |-> batches, i |-> 1,
                                                origin |-> origin]}],
        reached |-> "runBatches", outcome |-> "pending"]

\* run(), up to its first await
run(a, origin) ==
  LET built == buildWindows(a) IN
  IF built.threw # "nothing"
  THEN [service |-> a, reached |-> "run", outcome |-> "Error"]
  ELSE IF Len(built.windows) = 0
       THEN [service |-> a, reached |-> "run", outcome |-> "returned"]
  ELSE runBatches(a, built.windows, origin)

\* runRange(start, end), up to its first await; both of its errors have a
\* message that starts with 'Invalid range'
runRange(a, start, end, origin) ==
  LET s == align(start)
      e == align(end)
  IN  IF ~(s < e) \/ Len(HourlyWindows(s, e)) > MAX_WINDOWS
      THEN [service |-> a, reached |-> "runRange",
            outcome |-> "Error: invalid"]
      ELSE runBatches(a, HourlyWindows(s, e), origin)

\* toDate(value, label) throws for a string that is no timestamp
toDateThrows(value) == value.type # "string" \/ value.date = NULL

\* parseRange(body): null, the range, or an error whose message starts with
\* 'Invalid'
parseRange(body) ==
  IF ~Has(body, "start") /\ ~Has(body, "end") THEN [type |-> "null"]
  ELSE IF ~Has(body, "start") \/ ~Has(body, "end") THEN [type |-> "throw"]
  ELSE IF toDateThrows(body.start) \/ toDateThrows(body.end)
       THEN [type |-> "throw"]
  ELSE IF ~(body.start.date < body.end.date) THEN [type |-> "throw"]
  ELSE [type |-> "range", start |-> body.start.date, end |-> body.end.date]

\* the handler of POST /run: the status of the response to an outcome of
\* the service call, 0 while the call is pending
StatusOf(outcome) ==
  IF outcome = "pending" THEN 0
  ELSE IF outcome = "returned" THEN 200
  ELSE IF outcome = "AggregatorBusyError" THEN 409
  ELSE IF outcome = "Error: invalid" THEN 400
  ELSE 500

\* -------------------------------------------------------------------- state
VARIABLES
  queue,             \* EventBatcher.queue
  recentRequestIds,  \* EventBatcher.recentRequestIds, in insertion order
  isFlushing,        \* EventBatcher.isFlushing
  flushTimer,        \* TRUE while the setInterval timer is armed
  tasks,             \* the suspended activations of autoFlush
  calls,             \* the suspended activations of the sender function
  circuitState,      \* the sender's circuitState
  now,               \* Date.now()
  snapshots,         \* history: the snapshots taken by autoFlush, in order
  added,             \* history: number of add() calls made
  delivered,         \* history: number of direct calls of the sender
  runs,              \* history: consecutive breaker failures / successes
  ev,                \* history: what the last step of a direct call did
  hook,              \* the request the instrumentation hook is attached to
  aggregator,        \* the AggregatorService of the ingestion service
  responses          \* per request of aipMiddleware: res.end calls so far

vars == <<queue, recentRequestIds, isFlushing, flushTimer, tasks, calls,
          circuitState, now, snapshots, added, delivered, runs, ev, hook,
          aggregator, responses>>

\* no request has reached aipMiddleware yet
NoResponses == [r \in Ids |-> NULL]

batcherVars ==
  <<queue, recentRequestIds, isFlushing, flushTimer, tasks, snapshots, added>>

\* The label of a step of a direct call of the sender: how the gate answered
\* if the sender was entered, what the transport attempt met and the outcome
\* sendHttpRequest made of it, the breaker transition applied and how the
\* sender's promise settled.  Every other step is labelled Quiet.
Label(gate, transport, outcome, applied, result) ==
  [gate |-> gate, transport |-> transport, outcome |-> outcome,
   applied |-> applied, result |-> result]

Quiet == Label("none", "none", "none", "none", "none")

ResultName(r) ==
  IF r.pc # "return" THEN "none" ELSE IF r.result THEN "true" ELSE "false"

\* History of the breaker: fail counts the failure transitions applied since
\* the last success transition, succ the success transitions applied in
\* HALF_OPEN since the breaker last entered it.
RunsEnter(rn, before, after) ==
  IF before.state = "OPEN" /\ after.state = "HALF_OPEN"
  THEN [rn EXCEPT !.succ = 0] ELSE rn

RunsApply(rn, before, applied) ==
  IF applied = "success"
  THEN [fail |-> 0,
        succ |-> IF before.state = "HALF_OPEN" THEN rn.succ + 1 ELSE rn.succ]
  ELSE IF applied = "failure" THEN [rn EXCEPT !.fail = rn.fail + 1]
  ELSE rn

\* new EventBatcher(config, createSender(config))
IdlePipeline ==
  /\ queue = <<>>
  /\ recentRequestIds = <<>>
  /\ isFlushing = FALSE
  /\ flushTimer = TRUE
  /\ tasks = {}
  /\ calls = {}
  /\ circuitState = createInitialCircuitState
  /\ now = 0
  /\ snapshots = <<>>
  /\ added = 0
  /\ delivered = 0
  /\ runs = [fail |-> 0, succ |-> 0]
  /\ ev = Quiet

\* The pipeline as constructed, with no request under way.
Init ==
  /\ IdlePipeline
  /\ hook = NewRequest([serviceName |-> "service"],
                       [method |-> "GET", path |-> <<"/", "a">>])
  /\ aggregator = AggregatorService(FALSE)
  /\ responses = NoResponses

\* an autoFlush() without its single-flight guard
C3_NoGuard(flag) == FALSE

\* autoFlush(): the single-flight guard

FlushInProgress(flag) == flag

\* an autoFlush that clears the flag as soon as it suspends
C37_EarlyReset(pc, flag) == FALSE

\* an autoFlush without its finally block
C34_NoFinally(pc, flag) == flag

\* autoFlush(): the finally block resets isFlushing when the loop is left
\* (pc = "done"); until then the flag set before the loop stays
Finally(pc, flag) == IF pc = "done" THEN FALSE ELSE flag

\* An activation of autoFlush that has left its loop ends (its finally block
\* has reset isFlushing); one that waits stays suspended.
Suspend(ts, task) == IF task.pc = "done" THEN ts ELSE ts \cup {task}

\* an autoFlush that goes on with an empty snapshot
C39_FlushAnyway(events) == FALSE

\* autoFlush(): events.length === 0, nothing to flush
NothingToFlush(events) == Len(events) = 0

\* autoFlush() called with the queue holding q, up to its first suspension:
\* the guard, the snapshot, isFlushing = true, attempt 1 of the loop with the
\* synchronous part of the sender.
AutoFlush(q) ==
  LET got == getEvents(q) IN
  IF FlushInProgress(isFlushing) \/ NothingToFlush(got.events)
  THEN /\ queue' = q
       /\ UNCHANGED <<isFlushing, tasks, calls, circuitState, snapshots, runs>>
       /\ ev' = Quiet
  ELSE LET r == SenderEnter(circuitState, got.events, now)
           pcT == IF r.pc = "fetch" THEN "await" ELSE FlushResume(1, r.result)
           t == Len(snapshots) + 1
       IN /\ queue' = got.queue
          /\ snapshots' = Append(snapshots, got.events)
          /\ tasks' = Suspend(tasks, [snap |-> t, attempt |-> 1, pc |-> pcT,
                                      sends |-> IF r.pc = "fetch" THEN 1 ELSE 0])
          /\ isFlushing' = Finally(pcT, TRUE)
          /\ calls' = IF r.pc = "fetch"
                      THEN calls \cup {[task |-> t, attempt |-> 1, pc |-> "fetch"]}
                      ELSE calls
          /\ circuitState' = r.cs
          /\ runs' = RunsEnter(runs, circuitState, r.cs)
          /\ ev' = Quiet

\* add(event) with event.request_id = id
Add(id) ==
  /\ added < MaxAdds
  /\ added' = added + 1
  /\ UNCHANGED <<flushTimer, now, delivered, hook, aggregator>>
  /\ IF DedupHit(recentRequestIds, id)
     THEN /\ UNCHANGED <<queue, recentRequestIds, isFlushing, tasks, calls,
                         circuitState, snapshots, runs>>
          /\ ev' = Quiet
     ELSE LET q == Enqueue(queue, Event(id, added + 1)) IN
          /\ recentRequestIds' = RecordId(recentRequestIds, id)
          /\ IF SizeTrigger(q)
             THEN AutoFlush(q)
             ELSE /\ queue' = q
                  /\ UNCHANGED <<isFlushing, tasks, calls, circuitState,
                                 snapshots, runs>>
                  /\ ev' = Quiet

\* a timer whose callback flushes nothing
C13_IdleTimer == flushTimer /\ UNCHANGED vars

\* the setInterval callback of startTimer()
TimerFire ==
  /\ flushTimer
  /\ UNCHANGED <<recentRequestIds, flushTimer, now, added, delivered,
                 hook, aggregator, responses>>
  /\ AutoFlush(queue)

\* a stop() that flushes what is pending before it returns
C14_FlushOnStop ==
  /\ flushTimer
  /\ flushTimer' = FALSE
  /\ UNCHANGED <<recentRequestIds, now, added, delivered, hook, aggregator,
                 responses>>
  /\ AutoFlush(queue)

\* stop()
Stop ==
  /\ flushTimer
  /\ flushTimer' = FALSE
  /\ ev' = Quiet
  /\ UNCHANGED <<queue, recentRequestIds, isFlushing, tasks, calls,
                 circuitState, now, snapshots, added, delivered, runs,
                 hook, aggregator, responses>>

\* The sender's promise settles with `result` for its caller: the activation
\* of autoFlush that awaits it resumes (a direct caller has none).
Settle(c, result) ==
  IF c.task = 0 THEN UNCHANGED <<tasks, isFlushing, queue>>
  ELSE LET task == CHOOSE x \in tasks : x.snap = c.task
           pcT == FlushResume(task.attempt, result)
       IN /\ tasks' = Suspend(tasks \ {task}, [task EXCEPT !.pc = pcT])
          /\ isFlushing' = Finally(pcT, isFlushing)
          /\ queue' = IF pcT = "done"
                      THEN FlushEnd(queue, snapshots[c.task], result)
                      ELSE queue

\* The transport attempt of call c meets `outcome` and the promise of
\* sendHttpRequest settles.  Were it to reject, the sender (which awaits it
\* outside any try block) would reject too, and the catch block of autoFlush
\* would treat the attempt as failed.
TransportReturn(c, outcome) ==
  /\ c.pc = "fetch"
  /\ LET res == sendHttpRequest(outcome) IN
     IF res.settled = "rejected"
     THEN /\ calls' = calls \ {c}
          /\ UNCHANGED <<circuitState, runs>>
          /\ ev' = IF c.task = 0
                   THEN Label("none", outcome, "thrown", "none", "rejected")
                   ELSE Quiet
          /\ Settle(c, FALSE)
     ELSE LET ok == res.success
              r == SenderResume(circuitState, c.attempt, ok, now)
          IN /\ circuitState' = r.cs
             /\ runs' = RunsApply(runs, circuitState, r.applied)
             /\ ev' = IF c.task = 0
                      THEN Label("none", outcome, IF ok THEN "ok" ELSE "fail",
                                 r.applied, ResultName(r))
                      ELSE Quiet
             /\ IF r.pc = "backoff"
                THEN /\ calls' = (calls \ {c}) \cup
                                   {[c EXCEPT !.pc = "backoff"]}
                     /\ UNCHANGED <<tasks, isFlushing, queue>>
                ELSE /\ calls' = calls \ {c}
                     /\ Settle(c, r.result)
  /\ UNCHANGED <<recentRequestIds, flushTimer, now, snapshots, added,
                 delivered, hook, aggregator, responses>>

\* the sender's backoff sleep of call c ends: the next attempt is issued
BackoffDone(c) ==
  /\ c.pc = "backoff"
  /\ calls' = (calls \ {c}) \cup {[c EXCEPT !.pc = "fetch", !.attempt = @ + 1]}
  /\ tasks' = {IF x.snap = c.task THEN [x EXCEPT !.sends = @ + 1] ELSE x :
               x \in tasks}
  /\ ev' = Quiet
  /\ UNCHANGED <<queue, recentRequestIds, isFlushing, flushTimer,
                 circuitState, now, snapshots, added, delivered, runs,
                 hook, aggregator, responses>>

\* the 500 ms sleep of an activation of autoFlush ends: the next attempt of
\* its loop calls the sender again
SleepDone(task) ==
  /\ task.pc = "sleep"
  /\ LET a == task.attempt + 1
         r == SenderEnter(circuitState, snapshots[task.snap], now)
         pcT == IF r.pc = "fetch" THEN "await" ELSE FlushResume(a, r.result)
     IN /\ tasks' = Suspend(tasks \ {task},
                            [task EXCEPT !.attempt = a, !.pc = pcT,
                               !.sends = @ + (IF r.pc = "fetch" THEN 1 ELSE 0)])
        /\ isFlushing' = Finally(pcT, isFlushing)
        /\ calls' = IF r.pc = "fetch"
                    THEN calls \cup {[task |-> task.snap, attempt |-> 1,
                                      pc |-> "fetch"]}
                    ELSE calls
        /\ circuitState' = r.cs
        /\ runs' = RunsEnter(runs, circuitState, r.cs)
        /\ ev' = Quiet
        /\ queue' = IF pcT = "done"
                    THEN FlushEnd(queue, snapshots[task.snap], r.result)
                    ELSE queue
  /\ UNCHANGED <<recentRequestIds, flushTimer, now, snapshots, added,
                 delivered, hook, aggregator, responses>>

\* time passes
Tick ==
  /\ now < MaxTime
  /\ now' = now + 1
  /\ ev' = Quiet
  /\ UNCHANGED <<queue, recentRequestIds, isFlushing, flushTimer, tasks,
                 calls, circuitState, snapshots, added, delivered, runs,
                 hook, aggregator, responses>>

\* A direct call of the sender function with a batch of k events, made while
\* no other call is suspended (its only caller in the repository, autoFlush,
\* calls it under the single-flight guard).
Deliver(k) ==
  /\ delivered < MaxDelivers
  /\ calls = {}
  /\ delivered' = delivered + 1
  /\ LET r == SenderEnter(circuitState, [i \in 1..k |-> Event(i, 0)], now) IN
     /\ circuitState' = r.cs
     /\ runs' = RunsEnter(runs, circuitState, r.cs)
     /\ calls' = IF r.pc = "fetch"
                 THEN {[task |-> 0, attempt |-> 1, pc |-> "fetch"]} ELSE calls
     /\ ev' = Label(r.gate, "none", "none", "none", ResultName(r))
  /\ UNCHANGED <<batcherVars, now, hook, aggregator, responses>>

AddStep == \E id \in Ids : Add(id) /\ UNCHANGED responses
TransportStep ==
  \E c \in calls, outcome \in Outcomes : TransportReturn(c, outcome)
BackoffStep == \E c \in calls : BackoffDone(c)
SleepStep == \E task \in tasks : SleepDone(task)
DeliverStep == \E k \in 0..1 : Deliver(k)

\* ------------------------------------------------------------ hook: inputs
\* generateUUID(): the request_id of request id, a string of RequestIdLen
\* digits given by its character codes
RequestId(id) == [i \in 1..RequestIdLen |-> 48 + ((id * i) % 10)]

\* the requests: with and without a matched route
Requests ==
  {[method |-> "GET", route |-> [path |-> <<"/", "a">>],
    path |-> <<"/", "a", "/", "b">>],
   [method |-> "GET", path |-> <<"/", "b">>]}

\* config.sampling: absent, or one of these SamplingOptions
SamplingOptions ==
  {[samplingRate |-> Number(0, 1)],
   [samplingRate |-> Number(1, 1)],
   [samplingRate |-> Number(1, 2)],
   [samplingRate |-> Number(1, 2), hashSalt |-> <<115>>],
   [samplingRate |-> Number(0, 1), alwaysSampleErrors |-> FALSE],
   [samplingRate |-> Number(0, 1), alwaysSampleSlow |-> Number(1, 1)],
   [samplingRate |-> Number(0, 1), alwaysSampleSlow |-> Number(1, 1),
    customSampler |-> {Boolean(FALSE)}],
   [samplingRate |-> Number(0, 1),
    routeRules |-> <<[pattern |-> <<"/", "a">>, rate |-> Number(1, 1)]>>],
   [samplingRate |-> Number(1, 1), alwaysSampleErrors |-> FALSE,
    routeRules |-> <<[pattern |-> <<"/", "a", "/", "*">>,
                      rate |-> Number(0, 1)],
                     [pattern |-> <<"/", "b", "*">>, rate |-> Number(1, 2)]>>,
    statusRules |-> <<[statuses |-> {404}, rate |-> Number(0, 1)],
                      [min |-> 500, max |-> 599, rate |-> Number(1, 1)]>>],
   [samplingRate |-> Number(1, 1), customSampler |-> {Boolean(FALSE)}],
   [samplingRate |-> Number(0, 1),
    customSampler |-> {Boolean(TRUE), Number(1, 2), Undefined}],
   [samplingRate |-> Number(1, 4),
    prioritySampler |-> {Number(2, 1), Number(8, 1), Number(0, 1),
                         Number(-1, 1), NaN, Undefined}],
   [samplingRate |-> Number(1, 2),
    prioritySampler |-> {Number(8, 1)},
    customSampler |-> {Number(0, 1), Number(3, 2), NaN}]}

Configs ==
  {[serviceName |-> "service"]} \cup
  {[serviceName |-> "service", sampling |-> o] : o \in SamplingOptions}

\* what next() may throw: an Error, or a value that is not an Error
Thrown == {Error("RangeError", "boom"), [type |-> "string", value |-> "oops"]}

\* the errors the application hands to the error handler
HandlerErrors == {Error("TypeError", "bad input"), Error("", "")}

\* what the application writes to res.locals itself
AppLocals == {[errorType |-> "ValidationError", errorMessage |-> ""]}

StatusCodes == {200, 404, 500}

Signals == {"finish", "close"}

pipelineVars ==
  <<queue, recentRequestIds, isFlushing, flushTimer, tasks, calls,
    circuitState, snapshots, added, delivered, runs, ev>>

\* ----------------------------------------------------------- hook: actions
\* autoTraceMiddleware(req, res, next), up to its call of next(): the
\* closure is set up, the error callback stored under res and logEvent
\* registered once for each signal.
AutoTraceMiddleware(id) ==
  /\ hook.pc = "idle"
  /\ hook' = [hook EXCEPT !.pc = "next",
                          !.requestId = RequestId(id),
                          !.startTime = now,
                          !.mapped = TRUE,
                          !.listeners = Signals,
                          !.nextCalls = <<Undefined>>]
  /\ UNCHANGED <<pipelineVars, now, aggregator, responses>>

\* next() returns normally
NextReturns ==
  /\ hook.pc = "next"
  /\ hook' = [hook EXCEPT !.pc = "returned"]
  /\ UNCHANGED <<pipelineVars, now, aggregator, responses>>

\* a catch block that records the error and swallows it
C17_Swallow(h, err) ==
  LET e == AsError(err) IN
  [h EXCEPT !.pc = "rethrow",
            !.caughtError = e,
            !.source = "sync",
            !.locals = [errorType |-> e.name, errorMessage |-> e.message]]

\* the catch block: what it records, and its call of next(err)
Catch(h, err) ==
  LET e == AsError(err) IN
  [h EXCEPT !.pc = "rethrow",
            !.caughtError = e,
            !.source = "sync",
            !.locals = [errorType |-> e.name, errorMessage |-> e.message],
            !.nextCalls = Append(@, err)]

\* next() throws err synchronously: the catch block runs up to its call of
\* next(err)
NextThrows(err) ==
  /\ hook.pc = "next"
  /\ hook' = Catch(hook, err)
  /\ UNCHANGED <<pipelineVars, now, aggregator, responses>>

\* next(err) ends (if it throws, the exception leaves the middleware) and
\* autoTraceMiddleware is over
RethrowReturns ==
  /\ hook.pc = "rethrow"
  /\ hook' = [hook EXCEPT !.pc = "returned"]
  /\ UNCHANGED <<pipelineVars, now, aggregator, responses>>

\* the application sets the status code of a response it has not ended
SetStatus(code) ==
  /\ hook.pc # "idle"
  /\ hook.fired = {}
  /\ hook.statusCode # code
  /\ hook' = [hook EXCEPT !.statusCode = code]
  /\ UNCHANGED <<pipelineVars, now, aggregator, responses>>

\* the application writes res.locals.errorType / errorMessage itself
SetLocals(l) ==
  /\ hook.pc # "idle"
  /\ hook.fired = {}
  /\ hook.locals # l
  /\ hook' = [hook EXCEPT !.locals = l]
  /\ UNCHANGED <<pipelineVars, now, aggregator, responses>>

\* errorCallback(err): the first error recorded wins
errorCallback(h, err) ==
  IF h.caughtError = Null
  THEN [h EXCEPT !.caughtError = err, !.source = "handler"]
  ELSE h

\* autoTraceErrorHandler(err, req, res, next) for the response of the
\* request
AutoTraceErrorHandler(err) ==
  /\ hook.pc # "idle"
  /\ Len(hook.forwarded) < MaxHandlerCalls
  /\ LET h == [hook EXCEPT
                 !.locals = [errorType |-> OrElse(err.name, "Error"),
                             errorMessage |->
                               OrElse(err.message, "Something went wrong")],
                 !.forwarded = Append(@, err)]
     IN hook' = IF h.mapped THEN errorCallback(h, err) ELSE h
  /\ UNCHANGED <<pipelineVars, now, aggregator, responses>>

\* The response emits 'finish' or 'close' (from the event loop, after the
\* middleware has returned); a listener registered with once() is removed
\* before it is called.
Emit(sig, context) ==
  /\ hook.pc = "returned"
  /\ LET h == [hook EXCEPT !.fired = @ \cup {sig},
                           !.listeners = @ \ {sig}]
     IN hook' = IF sig \in hook.listeners THEN logEvent(h, now, context)
                ELSE h
  /\ UNCHANGED <<pipelineVars, now, aggregator, responses>>

EnterStep == \E id \in Ids : AutoTraceMiddleware(id)
ThrowStep == \E err \in Thrown : NextThrows(err)
StatusStep == \E code \in StatusCodes : SetStatus(code)
LocalsStep == \E l \in AppLocals : SetLocals(l)
HandlerStep == \E err \in HandlerErrors : AutoTraceErrorHandler(err)
EmitStep ==
  \E sig \in Signals, context \in Contexts(SamplingOf(hook.config)) :
    Emit(sig, context)

\* One request through the instrumentation hook.
HookInit ==
  /\ IdlePipeline
  /\ \E config \in Configs, req \in Requests : hook = NewRequest(config, req)
  /\ aggregator = AggregatorService(FALSE)
  /\ responses = NoResponses

HookNext ==
  \/ EnterStep
  \/ NextReturns
  \/ ThrowStep
  \/ RethrowReturns
  \/ StatusStep
  \/ LocalsStep
  \/ HandlerStep
  \/ EmitStep
  \/ Tick

HookSpec == HookInit /\ [][HookNext]_vars

\* ------------------------------------------------------ aggregator: actions
\* the timestamps a request body may hold: the strings of the Dates up to
\* one hour past the end of the clock, and a string that is no timestamp
Timestamps ==
  {IsoString(d) : d \in 0..(MaxClock + TicksPerHour)} \cup {IsoString(NULL)}

\* the bodies of POST /run: the empty object, only a start, start and end
Bodies ==
  {<<>>} \cup {[start |-> x] : x \in Timestamps}
         \cup {[start |-> x, end |-> y] : x \in Timestamps, y \in Timestamps}

\* how the promise of computeHourlyAggregates may settle; a rejection's
\* message may hold the word 'invalid'
Settlements == {"resolved", "Error", "Error: invalid"}

Reply(request, running, reached, status) ==
  [request |-> request, running |-> running, reached |-> reached,
   status |-> status]

\* POST /aggregator/run with `body`, from the key check of the router to the
\* response or to the await of a job that goes on; key says whether
\* verifyKey accepts the x-api-key header
PostRun(key, body) ==
  /\ LET a == aggregator
         range == parseRange(body)
         call == IF range.type = "range"
                 THEN runRange(a, range.start, range.end, "post")
                 ELSE run(a, "post")
     IN aggregator' =
          IF ~key
          THEN [a EXCEPT !.reply = Reply("post", a.busy, "none", 401)]
          ELSE IF range.type = "throw"
               THEN [a EXCEPT !.reply = Reply("post", a.busy, "none", 400)]
          ELSE [call.service EXCEPT
                  !.reply = Reply("post", a.busy, call.reached,
                                  StatusOf(call.outcome))]
  /\ UNCHANGED <<pipelineVars, now, hook, responses>>

\* start(), the service being enabled: arms the interval timer and, with
\* runOnStartup, calls run() (an error of run() is logged)
start ==
  /\ ~aggregator.timer
  /\ LET a == [aggregator EXCEPT !.timer = TRUE]
         call == IF a.runOnStartup THEN run(a, "start")
                 ELSE [service |-> a, reached |-> "none"]
     IN aggregator' =
          [call.service EXCEPT
             !.reply = Reply("start", a.busy, call.reached, 0)]
  /\ UNCHANGED <<pipelineVars, now, hook, responses>>

\* stop()
stop ==
  /\ aggregator.timer
  /\ aggregator' = [aggregator EXCEPT
                      !.timer = FALSE,
                      !.reply = Reply("stop", aggregator.busy, "none", 0)]
  /\ UNCHANGED <<pipelineVars, now, hook, responses>>

\* the callback of setInterval: run(), an error of which is logged
IntervalRun ==
  /\ aggregator.timer
  /\ LET call == run(aggregator, "timer")
     IN aggregator' =
          [call.service EXCEPT
             !.reply = Reply("timer", aggregator.busy, call.reached, 0)]
  /\ UNCHANGED <<pipelineVars, now, hook, responses>>

\* runBatches() resumes when computeHourlyAggregates settles for batch i of
\* `job`: on success it records the window end and goes on to the next
\* batch, or ends; the finally block clears busy when the job ends either
\* way.  The handler of POST /run then answers the request that began the
\* job.
BatchSettles(job, settled) ==
  /\ job \in aggregator.jobs
  /\ LET a == aggregator
         more == settled = "resolved" /\ job.i < Len(job.batches)
         status == IF more \/ job.origin # "post" THEN 0
                   ELSE StatusOf(IF settled = "resolved" THEN "returned"
                                 ELSE settled)
     IN aggregator' =
          [a EXCEPT
             !.last = IF settled = "resolved" THEN job.batches[job.i].e
                      ELSE @,
             !.jobs = IF more
                      THEN (@ \ {job}) \cup {[job EXCEPT !.i = @ + 1]}
                      ELSE @ \ {job},
             !.busy = IF more THEN @ ELSE FALSE,
             !.reply = Reply("job", a.busy, "none", status)]
  /\ UNCHANGED <<pipelineVars, now, hook, responses>>

\* the clock of the process advances
ClockTick ==
  /\ aggregator.clock < MaxClock
  /\ aggregator' = [aggregator EXCEPT
                      !.clock = @ + 1,
                      !.reply = Reply("none", aggregator.busy, "none", 0)]
  /\ UNCHANGED <<pipelineVars, now, hook, responses>>

PostStep == \E key \in BOOLEAN, body \in Bodies : PostRun(key, body)
SettleStep ==
  \E job \in aggregator.jobs, settled \in Settlements :
    BatchSettles(job, settled)

\* The aggregator service with its route.
AggregatorInit ==
  /\ IdlePipeline
  /\ hook = NewRequest([serviceName |-> "service"],
                       [method |-> "GET", path |-> <<"/", "a">>])
  /\ \E runOnStartup \in BOOLEAN :
       aggregator = AggregatorService(runOnStartup)
  /\ responses = NoResponses

AggregatorNext ==
  \/ PostStep
  \/ start
  \/ stop
  \/ IntervalRun
  \/ SettleStep
  \/ ClockTick

AggregatorSpec == AggregatorInit /\ [][AggregatorNext]_vars

\* The pipeline: the batcher with its sender.
Next ==
  \/ AddStep
  \/ TimerFire
  \/ Stop
  \/ TransportStep
  \/ BackoffStep
  \/ SleepStep
  \/ Tick

Spec == Init /\ [][Next]_vars

\* add() called for one request after the other, the request ids taken in
\* turn
TurnStep == Add((added % NumIds) + 1) /\ UNCHANGED responses

FairNext ==
  \/ TurnStep
  \/ TimerFire
  \/ Stop
  \/ TransportStep
  \/ BackoffStep
  \/ SleepStep
  \/ Tick

\* The pipeline under the scheduling of the event loop: an armed interval
\* timer keeps firing, a transport attempt settles (sendHttpRequest aborts it
\* after TIMEOUT_MS at the latest) and a sleep ends.
FairSpec ==
  /\ Init /\ [][FairNext]_vars
  /\ WF_vars(TimerFire)
  /\ WF_vars(TransportStep)
  /\ WF_vars(BackoffStep)
  /\ WF_vars(SleepStep)

\* The sender alone, called directly.
SenderNext ==
  \/ DeliverStep
  \/ TransportStep
  \/ BackoffStep
  \/ Tick

SenderSpec == Init /\ [][SenderNext]_vars

\* The sender under fairness: the promise of sendHttpRequest settles (at
\* the latest when its abort timer fires) and the timer of the backoff sleep
\* fires, so a suspended sender call is resumed.
FairSenderSpec ==
  /\ Init
  /\ [][SenderNext]_vars
  /\ WF_vars(TransportStep)
  /\ WF_vars(BackoffStep)

\* The promise of the injected sendFunction rejects while autoFlush awaits
\* it (the constructor of EventBatcher takes any function): the catch block
\* of the loop treats the attempt as failed, `successful` stays false.
SendFunctionRejects(c) ==
  /\ c.pc = "fetch"
  /\ c.task # 0
  /\ calls' = calls \ {c}
  /\ ev' = Label("none", "none", "thrown", "none", "rejected")
  /\ Settle(c, FALSE)
  /\ UNCHANGED <<recentRequestIds, flushTimer, circuitState, now, snapshots,
                 added, delivered, runs, hook, aggregator, responses>>

RejectStep == \E c \in calls : SendFunctionRejects(c)

ThrowingNext ==
  \/ TurnStep
  \/ TimerFire
  \/ Stop
  \/ TransportStep
  \/ RejectStep
  \/ BackoffStep
  \/ SleepStep
  \/ Tick

\* The pipeline with a sendFunction that may also reject, under the
\* scheduling of the event loop: a pending promise settles one way or the
\* other, a sleep ends, an armed timer keeps firing.
ThrowingSpec ==
  /\ Init /\ [][ThrowingNext]_vars
  /\ WF_vars(TimerFire)
  /\ WF_vars(TransportStep)
  /\ WF_vars(BackoffStep)
  /\ WF_vars(SleepStep)

\* a direct call of the sender, one of at most MaxDirect
DirectStep == \E k \in 0..1 : delivered < MaxDirect /\ Deliver(k)

\* The pipeline with adds taken in turn, and the sender function also called
\* directly (with an empty or a one-event batch) while no call is suspended.
DirectNext ==
  \/ TurnStep
  \/ TimerFire
  \/ DirectStep
  \/ TransportStep
  \/ BackoffStep
  \/ SleepStep
  \/ Tick

DirectSpec == Init /\ [][DirectNext]_vars

\* ---------------------------------------------- middleware of the aip client
\* aipMiddleware(req, res, next) for request r: a request id is generated
\* (uuid v4: one per request, here the number of the request) and res.end is
\* overridden; nothing has been logged yet.
aipMiddleware(r) ==
  /\ responses[r] = NULL
  /\ responses' = [responses EXCEPT ![r] = 0]
  /\ UNCHANGED <<pipelineVars, now, hook, aggregator>>

\* an override that logs the first res.end of a response only
C38_Guarded(r) ==
  /\ responses[r] # NULL
  /\ responses[r] < MaxEnds
  /\ responses' = [responses EXCEPT ![r] = @ + 1]
  /\ IF responses[r] = 0 THEN Add(r)
     ELSE UNCHANGED <<pipelineVars, now, hook, aggregator>>

\* The overridden res.end of request r is invoked: it builds the event with
\* the request id of its closure and hands it to batcher.add, whatever was
\* logged before, then calls the original res.end.
ResEnd(r) ==
  /\ responses[r] # NULL
  /\ responses[r] < MaxEnds
  /\ responses' = [responses EXCEPT ![r] = @ + 1]
  /\ Add(r)

RequestStep == \E r \in Ids : aipMiddleware(r)
EndStep == \E r \in Ids : ResEnd(r)

MiddlewareNext ==
  \/ RequestStep
  \/ EndStep
  \/ TimerFire
  \/ TransportStep
  \/ BackoffStep
  \/ SleepStep

\* createAIPMiddleware(config): the batcher with its sender, fed by the
\* res.end overrides of the requests.
MiddlewareSpec == Init /\ [][MiddlewareNext]_vars

\* ------------------------------------------------------------------- claims
Last(q) == q[Len(q)]

\* every event that is pending or was taken into a snapshot
AllEvents ==
  Range(queue) \cup UNION {Range(snapshots[i]) : i \in 1..Len(snapshots)}

SnapshotEvents == UNION {Range(snapshots[i]) : i \in 1..Len(snapshots)}

\* the step is an add() call whose event was accepted (not a duplicate)
AcceptedAdd == added' = added + 1 /\ recentRequestIds' # recentRequestIds

\* the step takes a flush snapshot
TakesSnapshot == Len(snapshots') > Len(snapshots)

\* C1 as stated: for any sequence of add() calls and flushes, at most one
\* event of a given request_id ever reaches a flush snapshot.
C1_Original ==
  \A e1 \in SnapshotEvents, e2 \in SnapshotEvents :
    e1.request_id = e2.request_id => e1 = e2

\* C1 (amended): two accepted events carry the same request_id only if at
\* least maxDedupeSize other events were accepted between them (the id had
\* left the dedup window); within the window the second add() is dropped,
\* whether or not the first event has been flushed.
C1_DedupWithinWindow ==
  \A e1 \in AllEvents, e2 \in AllEvents :
    (e1.request_id = e2.request_id /\ e1.seq < e2.seq) =>
      Cardinality({e \in AllEvents : e1.seq < e.seq /\ e.seq < e2.seq})
        >= maxDedupeSize

\* an add() was dropped as a duplicate of an event that is already in a
\* flush snapshot
C1_Witness ==
  /\ added = 2
  /\ queue = <<>>
  /\ snapshots = << <<Event(1, 1)>> >>

C3_SingleFlight ==
  /\ [](/\ Cardinality(tasks) <= 1
        /\ Cardinality(calls) <= 1
        /\ isFlushing <=> tasks # {})
  /\ [][isFlushing => snapshots' = snapshots]_vars

\* a size trigger arrived while a flush was in flight and was skipped
C3_Witness ==
  /\ isFlushing
  /\ Len(queue) >= batchSize
  /\ \E c \in calls : c.pc = "fetch"

\* the step applies the breaker's failure / success transition
AppliesFailure == ev'.applied = "failure"
AppliesSuccess == ev'.applied = "success"

\* C4: with threshold 5, the fifth consecutive failure applied to a CLOSED
\* breaker that started at failureCount 0 moves it to OPEN, recording
\* lastFailureTime and setting successCount to 0; after fewer than five it
\* is still CLOSED.  (A failure is what the sender applies to the breaker:
\* a delivery whose attempts all failed.)
C4_ClosedToOpen ==
  /\ [](circuitState.state = "CLOSED" =>
          /\ runs.fail < CIRCUIT_THRESHOLD
          /\ circuitState.failureCount = runs.fail)
  /\ [][(circuitState.state = "CLOSED" /\ AppliesFailure) =>
          IF runs'.fail = CIRCUIT_THRESHOLD
          THEN circuitState' = [state |-> "OPEN",
                                failureCount |-> CIRCUIT_THRESHOLD,
                                lastFailureTime |-> now,
                                successCount |-> 0]
          ELSE circuitState'.state = "CLOSED"]_vars

\* the fifth consecutive failure has just opened the breaker
C4_Witness ==
  /\ circuitState.state = "OPEN"
  /\ runs.fail = CIRCUIT_THRESHOLD
  /\ ev.applied = "failure"
  /\ delivered = CIRCUIT_THRESHOLD

\* C5: a delivery of a non-empty batch entered while the breaker is OPEN and
\* the reset window has not elapsed since lastFailureTime returns false in
\* the same step, starts no transport call and leaves the breaker unchanged.
C5_FastFail ==
  [][(/\ delivered' = delivered + 1
      /\ ev'.gate # "empty"
      /\ circuitState.state = "OPEN"
      /\ now - circuitState.lastFailureTime < CIRCUIT_RESET_MS) =>
       /\ ev'.gate = "denied"
       /\ ev'.result = "false"
       /\ calls' = {}
       /\ circuitState' = circuitState]_vars

\* a delivery has just been denied by the OPEN breaker
C5_Witness ==
  /\ ev.gate = "denied"
  /\ ev.result = "false"
  /\ circuitState.state = "OPEN"
  /\ calls = {}

\* C6: in HALF_OPEN the third consecutive success returns the breaker to
\* CLOSED with every field reset (failureCount 0); after one or two
\* successes it is still HALF_OPEN.
C6_HalfOpenToClosed ==
  /\ [](circuitState.state = "HALF_OPEN" =>
          /\ runs.succ < HALF_OPEN_SUCCESSES
          /\ circuitState.successCount = runs.succ)
  /\ [][(circuitState.state = "HALF_OPEN" /\ AppliesSuccess) =>
          IF runs'.succ = HALF_OPEN_SUCCESSES
          THEN circuitState' = [state |-> "CLOSED", failureCount |-> 0,
                                lastFailureTime |-> NULL, successCount |-> 0]
          ELSE circuitState'.state = "HALF_OPEN"]_vars

\* the third success in HALF_OPEN has just closed the breaker
C6_Witness ==
  /\ circuitState.state = "CLOSED"
  /\ circuitState.failureCount = 0
  /\ runs.succ = HALF_OPEN_SUCCESSES
  /\ ev.applied = "success"

\* C7: a failure applied while the breaker is HALF_OPEN moves it to OPEN in
\* that step, with failureCount incremented, lastFailureTime set to the
\* current time and successCount 0.
C7_HalfOpenToOpen ==
  [][(circuitState.state = "HALF_OPEN" /\ AppliesFailure) =>
       circuitState' = [state |-> "OPEN",
                        failureCount |-> circuitState.failureCount + 1,
                        lastFailureTime |-> now,
                        successCount |-> 0]]_vars

\* a failed probe has just re-opened the breaker after one success, at a
\* later time than the failure that opened it first
C7_Witness ==
  /\ circuitState.state = "OPEN"
  /\ circuitState.failureCount = CIRCUIT_THRESHOLD + 1
  /\ circuitState.lastFailureTime = CIRCUIT_RESET_MS
  /\ runs.succ = 1
  /\ ev.applied = "failure"

\* C8 as stated: no flush makes a 4th transport attempt.
C8_Original == \A task \in tasks : task.sends <= MAX_RETRIES

\* C8 (amended): one call of the sender makes at most MAX_RETRIES = 3
\* transport attempts and returns false when the third fails; autoFlush
\* calls the sender at most maxRetries = 3 times for one flush, so one flush
\* makes at most 9 transport attempts.
C8_BoundedAttempts ==
  /\ \A c \in calls : c.attempt <= MAX_RETRIES
  /\ \A task \in tasks :
       /\ task.attempt <= maxRetries
       /\ task.sends <= task.attempt * MAX_RETRIES

\* the ninth transport attempt of one flush is in flight
C8_Witness ==
  \E task \in tasks :
    /\ task.sends = maxRetries * MAX_RETRIES
    /\ \E c \in calls : c.task = task.snap /\ c.pc = "fetch"

\* C9 as stated: whenever a transport attempt resolves, its outcome is
\* applied to the breaker.
C9_Original == ev.outcome # "none" => ev.applied # "none"

\* C9 (amended): a successful attempt is applied to the breaker as a
\* success; a failed attempt is applied as a failure only when it is the
\* last of the MAX_RETRIES attempts of its call; an earlier failed attempt
\* leaves the breaker unchanged.
C9_OutcomeApplied ==
  [][\A c \in calls :
       (c.pc = "fetch" /\ ev'.outcome # "none") =>
         IF ev'.outcome = "ok"
         THEN ev'.applied = "success" /\ ev'.result = "true"
         ELSE IF c.attempt < MAX_RETRIES
              THEN /\ ev'.applied = "none"
                   /\ ev'.result = "none"
                   /\ circuitState' = circuitState
         ELSE /\ ev'.applied = "failure"
              /\ ev'.result = "false"
              /\ circuitState'.failureCount = circuitState.failureCount + 1
              /\ circuitState'.lastFailureTime = now]_vars

\* the third attempt of a call has failed and the failure was applied
C9_Witness ==
  /\ ev.outcome = "fail"
  /\ ev.applied = "failure"
  /\ circuitState.failureCount = 1
  /\ calls = {}

\* C10: when no flush is in progress, the accepted add() that brings the
\* pending queue to batchSize takes exactly one snapshot, which is exactly
\* those batchSize events, and leaves the queue empty with the flush in
\* flight; an accepted add() made while a flush is in flight only appends to
\* the pending queue.
C10_SizeTriggeredFlush ==
  [][AcceptedAdd =>
       /\ (~isFlushing /\ Len(queue) + 1 = batchSize) =>
            /\ Len(snapshots') = Len(snapshots) + 1
            /\ Len(Last(snapshots')) = batchSize
            /\ \E id \in Ids :
                 Last(snapshots') = Append(queue, Event(id, added'))
            /\ queue' = <<>>
            /\ isFlushing'
       /\ (~isFlushing /\ Len(queue) + 1 < batchSize) =>
            /\ snapshots' = snapshots
            /\ Len(queue') = Len(queue) + 1
            /\ ~isFlushing'
       /\ isFlushing =>
            /\ snapshots' = snapshots
            /\ isFlushing'
            /\ \E id \in Ids : queue' = Append(queue, Event(id, added'))
    ]_vars

\* scenario C: batchSize + 2 events added, one flush of batchSize events
\* taken at the batchSize-th add and still in flight, 2 events pending
C10_Witness ==
  /\ added = batchSize + 2
  /\ Len(snapshots) = 1
  /\ Len(snapshots[1]) = batchSize
  /\ \A i \in 1..batchSize : snapshots[1][i].seq = i
  /\ Len(queue) = 2
  /\ isFlushing

\* C11: for one request, however the 'finish' and 'close' signals fire, at
\* most one event is constructed and batcher.add is called at most once;
\* once a signal has fired the event has been constructed, and batcher.add
\* was called exactly once if the sampling decision kept it (not at all if
\* it dropped it).
C11_ExactlyOnce ==
  /\ Len(hook.built) <= 1
  /\ Len(hook.handed) <= 1
  /\ hook.fired # {} =>
       /\ Len(hook.built) = 1
       /\ Len(hook.sampled) = 1
       /\ Len(hook.handed) = (IF hook.sampled[1].keep THEN 1 ELSE 0)

\* both signals have fired, both listeners have run and the event was
\* handed to the batcher once
C11_Witness ==
  /\ hook.fired = Signals
  /\ hook.listeners = {}
  /\ hook.hasLogged
  /\ Len(hook.handed) = 1

\* C12: the events of a flush snapshot are never put back in the pending
\* queue and never appear in another snapshot, whatever became of their
\* delivery; in particular not after a flush whose delivery finally failed.
C12_NotRequeued ==
  /\ Range(queue) \cap SnapshotEvents = {}
  /\ \A i \in 1..Len(snapshots), j \in 1..Len(snapshots) :
       i # j => Range(snapshots[i]) \cap Range(snapshots[j]) = {}

\* The first flush has failed for good (its three calls of the sender were
\* each applied to the breaker as a failure, and nothing else was sent), and
\* a later snapshot has been taken whose first transport attempt is in
\* flight.
C12_Witness ==
  /\ Len(snapshots) = 2
  /\ circuitState.state = "CLOSED"
  /\ circuitState.failureCount = maxRetries
  /\ \E task \in tasks :
       /\ task.snap = 2 /\ task.attempt = 1 /\ task.sends = 1
       /\ \E c \in calls : c.task = 2 /\ c.attempt = 1 /\ c.pc = "fetch"

\* C13: as long as the batcher is not stopped, every event in the pending
\* queue is eventually taken into a flush snapshot (the timer fires whatever
\* the size of the queue, and every flush in flight ends).
C13_TimerDelivery ==
  \A n \in 1..MaxAdds :
    (\E e \in Range(queue) : e.seq = n)
      ~> (~flushTimer \/ \E e \in SnapshotEvents : e.seq = n)

\* the timer has flushed a queue that was below the size threshold
C13_Witness ==
  /\ flushTimer
  /\ \E i \in 1..Len(snapshots) : Len(snapshots[i]) < batchSize

\* C14: the step in which stop() cancels the timer takes no snapshot, starts
\* no sender call and leaves the pending queue, the dedup window and the
\* flush in flight (if any) as they were; once the timer is cancelled it
\* stays cancelled, and a snapshot is then taken only by an accepted add()
\* that brings the queue to batchSize or more.
C14_StopOnlyCancels ==
  /\ [][(flushTimer /\ ~flushTimer') =>
          /\ queue' = queue
          /\ recentRequestIds' = recentRequestIds
          /\ snapshots' = snapshots
          /\ calls' = calls
          /\ tasks' = tasks
          /\ isFlushing' = isFlushing
          /\ circuitState' = circuitState]_vars
  /\ [][~flushTimer =>
          /\ ~flushTimer'
          /\ TakesSnapshot =>
               (AcceptedAdd /\ Len(Last(snapshots')) >= batchSize)]_vars

\* stop() was called with an event pending and no flush in flight: the
\* event is still pending and nothing was flushed
C14_Witness ==
  /\ ~flushTimer
  /\ Len(queue) = 1
  /\ Len(recentRequestIds) = 1
  /\ ~isFlushing
  /\ snapshots = <<>>

\* C15: a call of the sender never rejects: whenever a transport attempt
\* has settled, a timeout, a non-2xx response and a network-level exception
\* have each become a failure result, and a call that has ended has resolved
\* to true or to false.
C15_FailureReported ==
  /\ ev.result \in {"none", "true", "false"}
  /\ ev.outcome \in {"none", "ok", "fail"}
  /\ ev.transport \in {"timeout", "non-2xx", "network"} =>
       ev.outcome = "fail" /\ ev.result # "true"
  /\ (ev.transport # "none" /\ calls = {}) => ev.result \in {"true", "false"}

\* the third attempt of a call met a network-level exception and the call
\* resolved to false
C15_Witness ==
  /\ ev.transport = "network"
  /\ ev.outcome = "fail"
  /\ ev.result = "false"
  /\ calls = {}

\* C16 as stated: when building the payload of a batch has failed, the call
\* of the sender is over, with the result false, and no further attempt is
\* pending for the batch.
C16_Original ==
  ev.transport = "serialize" => (calls = {} /\ ev.result = "false")

\* building the payload failed on the first attempt of a call, and the call
\* waits in its backoff sleep for the second attempt
C16_Witness ==
  /\ ev.transport = "serialize"
  /\ ev.result = "none"
  /\ calls = {[task |-> 0, attempt |-> 1, pc |-> "backoff"]}

\* C17: the hook calls next() once, with no argument; if that call returns
\* the hook calls it no more; if it throws, the hook records the error (as
\* an Error) in caughtError and its name and message in res.locals, and
\* calls next once more, with the very value that was thrown.
C17_ThrowPropagated ==
  /\ [](hook.pc = "idle" => hook.nextCalls = <<>>)
  /\ []((hook.pc # "idle" /\ hook.source # "sync") =>
          hook.nextCalls = <<Undefined>>)
  /\ [](hook.source = "sync" =>
          /\ Len(hook.nextCalls) = 2
          /\ hook.nextCalls[1] = Undefined
          /\ hook.nextCalls[2] \in Thrown
          /\ hook.caughtError = AsError(hook.nextCalls[2]))
  /\ [][(hook.pc = "next" /\ hook'.pc = "rethrow") =>
          /\ hook'.source = "sync"
          /\ hook'.locals = [errorType |-> hook'.caughtError.name,
                             errorMessage |-> hook'.caughtError.message]]_vars

\* next() threw a value that is no Error: it was recorded as an Error and
\* handed to next as it was thrown
C17_Witness ==
  /\ hook.pc = "returned"
  /\ hook.nextCalls = <<Undefined, [type |-> "string", value |-> "oops"]>>
  /\ hook.caughtError = Error("Error", "oops")
  /\ hook.locals = [errorType |-> "Error", errorMessage |-> "oops"]

\* event e has the error fields type and message
HasError(e, type, message) ==
  /\ Has(e, "error_type") /\ Has(e, "error_message")
  /\ e.error_type = type
  /\ e.error_message = message

\* the error fields of event e are those of error err
ErrorOf(e, err) ==
  HasError(e, OrElse(err.name, "Error"), OrElse(err.message, "Unknown Error"))

\* C18: the step that constructs the event takes error_type and
\* error_message from one source: (a) the error caught when next() threw, if
\* it threw; (b) otherwise the first error the error handler reported for
\* this response, or else what res.locals.errorType / errorMessage hold,
\* whatever the status code; (c) otherwise 'HTTP_ERROR' with an empty message
\* if the status code is >= 400; otherwise the event has no error fields.
C18_ErrorPrecedence ==
  [][Len(hook'.built) = Len(hook.built) + 1 =>
       LET e == Last(hook'.built) IN
       /\ e.status_code = hook.statusCode
       /\ IF hook.source = "sync"
          THEN ErrorOf(e, AsError(hook.nextCalls[2]))
          ELSE IF hook.forwarded # <<>>
               THEN ErrorOf(e, hook.forwarded[1])
          ELSE IF hook.locals.errorType # ""
               THEN HasError(e, hook.locals.errorType,
                             hook.locals.errorMessage)
          ELSE IF hook.statusCode >= 400 THEN HasError(e, "HTTP_ERROR", "")
          ELSE ~Has(e, "error_type") /\ ~Has(e, "error_message")]_vars

\* next() threw, the error handler reported another error for the response,
\* and the event of the 200 response carries the error that was thrown
C18_Witness ==
  /\ Len(hook.built) = 1
  /\ hook.built[1].status_code = 200
  /\ HasError(hook.built[1], "RangeError", "boom")
  /\ hook.locals.errorType = "TypeError"

\* the configured samplingRate is the number n
ConfiguredRate(sampling, n) ==
  /\ sampling # Undefined
  /\ Has(sampling, "samplingRate")
  /\ sampling.samplingRate = Number(n, 1)

\* C20 as stated, with the rate being the configured samplingRate: at rate 0
\* only events kept by an always-sample override are sampled in, at rate 1
\* every event is, and only sampled-in events are handed to the batcher.
C20_Original ==
  \A i \in 1..Len(hook.built) :
    LET e == hook.built[i]
        s == SamplingOf(hook.config)
    IN /\ ConfiguredRate(s, 0) => (hook.sampled[i].keep => AlwaysSample(e, s))
       /\ ConfiguredRate(s, 1) => hook.sampled[i].keep
       /\ hook.sampled[i].keep \/ e \notin Range(hook.handed)

\* C20 (amended): the boundaries hold for the effective rate, that is the
\* configured samplingRate as replaced by a matching route rule and then a
\* matching status rule, multiplied by a positive priority result and
\* replaced by a numeric custom decision.  When no always-sample override
\* applies and the custom sampler gave no boolean, an effective rate <= 0
\* drops the event and one >= 1 keeps it; an always-sample override keeps
\* it; a boolean custom decision is final; without sampling options every
\* event is kept; and the events handed to the batcher are exactly the
\* sampled-in ones.
C20_ThresholdBoundaries ==
  /\ Len(hook.sampled) = Len(hook.built)
  /\ hook.handed =
       SelectSeq(hook.built,
                 LAMBDA e : \E i \in 1..Len(hook.built) :
                              hook.built[i] = e /\ hook.sampled[i].keep)
  /\ \A i \in 1..Len(hook.built) :
       LET e == hook.built[i]
           d == hook.sampled[i]
           s == SamplingOf(hook.config)
           rate == IF Has(s, "customSampler") /\ TypeofNumber(d.context.custom)
                   THEN clampRate(d.context.custom)
                   ELSE RuleRate(e, s, d.context.pr)
       IN IF s = Undefined THEN d.keep
          ELSE IF AlwaysSample(e, s) THEN d.keep
          ELSE IF Has(s, "customSampler") /\ d.context.custom.type = "boolean"
               THEN d.keep = d.context.custom.value
          ELSE /\ rate.num <= 0 => ~d.keep
               /\ rate.num >= rate.den => d.keep

\* samplingRate is 0 and no always-sample override applies to the event,
\* but a route rule with rate 1 matches: the event was handed to the batcher
C20_Witness ==
  /\ ConfiguredRate(SamplingOf(hook.config), 0)
  /\ Has(SamplingOf(hook.config), "routeRules")
  /\ Len(hook.handed) = 1
  /\ ~AlwaysSample(hook.handed[1], SamplingOf(hook.config))

\* the i-th event the hook built had its sampling decision taken with
\* sampling options present
Decided(i) == i \in 1..Len(hook.built) /\ SamplingOf(hook.config) # Undefined

\* event e is an error event: status_code >= 400 or a non-empty error_type
IsErrorEvent(e) ==
  e.status_code >= 400 \/ (Has(e, "error_type") /\ e.error_type # "")

\* alwaysSampleErrors is enabled in sampling options s (the default)
ErrorsEnabled(s) == Has(s, "alwaysSampleErrors") => s.alwaysSampleErrors

\* C21: with sampling options present and alwaysSampleErrors enabled (the
\* default), every event with status_code >= 400 or a non-empty error_type
\* is sampled in and handed to the batcher, whatever the sampling rate, the
\* route and status rules and the results of the sampler callbacks are.
C21_ErrorOverride ==
  \A i \in 1..Len(hook.built) :
    (Decided(i) /\ ErrorsEnabled(SamplingOf(hook.config))
       /\ IsErrorEvent(hook.built[i]))
      => hook.sampled[i].keep /\ hook.built[i] \in Range(hook.handed)

\* scenario A: the configuration is {samplingRate: 0} and the event of a
\* response with status 500 was handed to the batcher
C21_Witness ==
  /\ SamplingOf(hook.config) = [samplingRate |-> Number(0, 1)]
  /\ Len(hook.handed) = 1
  /\ hook.handed[1].status_code = 500

\* sampling options s set the slow threshold and event e lasted at least as
\* long
IsSlowEvent(e, s) ==
  /\ Has(s, "alwaysSampleSlow")
  /\ s.alwaysSampleSlow.type = "number"
  /\ e.duration_ms * s.alwaysSampleSlow.den >= s.alwaysSampleSlow.num

RECURSIVE GlobTest(_, _, _, _)
GlobTest(route, i, pattern, j) ==
  IF j > Len(pattern) THEN i > Len(route)
  ELSE IF pattern[j] = "*"
       THEN \/ GlobTest(route, i, pattern, j + 1)
            \/ i <= Len(route) /\ GlobTest(route, i + 1, pattern, j)
  ELSE /\ i <= Len(route)
       /\ route[i] = pattern[j]
       /\ GlobTest(route, i + 1, pattern, j + 1)

\* the rate of the first rule among rules whose index is in hits, or else
\* the rate given
OverriddenBy(rules, hits, else) ==
  IF hits = {} THEN else ELSE clampRate(rules[FindRule(hits)].rate)

\* The rate the rules give event e under sampling options s: the base rate,
\* overridden by the first route rule whose pattern matches the route of the
\* event (exactly, or as a glob), overridden in turn by the first status
\* rule that lists the status code or whose range [min, max] holds it.
RateByRules(e, s) ==
  LET base == clampRate(IF Has(s, "samplingRate") THEN s.samplingRate
                        ELSE Number(1, 1))
      afterRoute ==
        IF Has(s, "routeRules")
        THEN OverriddenBy(s.routeRules,
                          {r \in 1..Len(s.routeRules) :
                             /\ e.route # <<>>
                             /\ GlobTest(e.route, 1,
                                         s.routeRules[r].pattern, 1)},
                          base)
        ELSE base
  IN  IF Has(s, "statusRules")
      THEN OverriddenBy(s.statusRules,
                        {r \in 1..Len(s.statusRules) :
                           \/ /\ Has(s.statusRules[r], "statuses")
                              /\ e.status_code \in s.statusRules[r].statuses
                           \/ /\ Has(s.statusRules[r], "min")
                              /\ Has(s.statusRules[r], "max")
                              /\ s.statusRules[r].min <= e.status_code
                              /\ e.status_code <= s.statusRules[r].max},
                        afterRoute)
      ELSE afterRoute

\* C23: for an event that no always-sample override keeps, under options
\* without sampler callbacks, the decision is the threshold check of the
\* rate the rules give: the rate of the first route rule matching the route
\* of the event replaces the base rate, and the rate of the first matching
\* status rule (status list membership or inclusive [min, max] range)
\* replaces that.
C23_Original ==
  \A i \in 1..Len(hook.built) :
    LET e == hook.built[i]
        s == SamplingOf(hook.config)
    IN (/\ Decided(i)
        /\ ~(ErrorsEnabled(s) /\ IsErrorEvent(e))
        /\ ~IsSlowEvent(e, s)
        /\ ~Has(s, "prioritySampler")
        /\ ~Has(s, "customSampler"))
         => hook.sampled[i].keep = ThresholdCheck(e, s, RateByRules(e, s))

\* the route rules are '/a/*' with rate 0 and '/b*' with rate 1/2 over a
\* base rate of 1; the event of route '/a' with status 200, which neither
\* pattern matches as a glob, was dropped
C23_Witness ==
  /\ Len(hook.built) = 1
  /\ Has(SamplingOf(hook.config), "routeRules")
  /\ Len(SamplingOf(hook.config).routeRules) = 2
  /\ hook.built[1].route = <<"/", "a">>
  /\ hook.built[1].status_code = 200
  /\ ~hook.sampled[1].keep
  /\ hook.handed = <<>>

\* no always-sample override applies to the i-th event the hook built
NotOverridden(i) ==
  /\ Decided(i)
  /\ ~(ErrorsEnabled(SamplingOf(hook.config)) /\ IsErrorEvent(hook.built[i]))
  /\ ~IsSlowEvent(hook.built[i], SamplingOf(hook.config))

\* C24: for an event that no error or slow override keeps, a boolean
\* returned by customSampler is the sampling decision; a number returned by
\* it, clamped to [0,1], is the rate of the final threshold check in place
\* of the rate the rules and the priority adjustment gave; and the event is
\* handed to the batcher iff the decision is to keep it.
C24_CustomSampler ==
  \A i \in 1..Len(hook.built) :
    LET e == hook.built[i]
        d == hook.sampled[i]
        s == SamplingOf(hook.config)
    IN (NotOverridden(i) /\ Has(s, "customSampler")) =>
         /\ d.context.custom.type = "boolean"
              => d.keep = d.context.custom.value
         /\ d.context.custom.type = "NaN" => ~d.keep
         /\ d.context.custom.type = "number" =>
              d.keep = ThresholdCheck(e, s, clampRate(d.context.custom))
         /\ d.keep <=> e \in Range(hook.handed)

\* prioritySampler returned 8 for a base rate of 1/2, customSampler returned
\* the number 0, and the event, which no override keeps, was dropped
C24_Witness ==
  /\ Len(hook.built) = 1
  /\ NotOverridden(1)
  /\ Has(SamplingOf(hook.config), "prioritySampler")
  /\ hook.sampled[1].context.pr = Number(8, 1)
  /\ hook.sampled[1].context.custom = Number(0, 1)
  /\ hook.handed = <<>>

\* C25: for an event that no override keeps, under options with a
\* prioritySampler and no customSampler, the rate of the final threshold
\* check is the rate the rules give multiplied by the number the callback
\* returned and clamped to [0,1] when that number is positive (a product
\* >= 1 keeps every event), and the rate the rules give when the callback
\* returned zero, a negative number, NaN or no number.
C25_PrioritySampler ==
  \A i \in 1..Len(hook.built) :
    LET e == hook.built[i]
        d == hook.sampled[i]
        s == SamplingOf(hook.config)
        pr == d.context.pr
        rate == OverrideRate(e, s)
    IN (NotOverridden(i) /\ Has(s, "prioritySampler")
          /\ ~Has(s, "customSampler")) =>
         IF pr.type = "number" /\ pr.num > 0
         THEN /\ d.keep = ThresholdCheck(e, s, clampRate(Times(rate, pr)))
              /\ rate.num * pr.num >= rate.den * pr.den => d.keep
         ELSE d.keep = ThresholdCheck(e, s, rate)

\* samplingRate is 1/4, prioritySampler returned 8, and the event of request
\* 1, whose hash fraction is above 1/2, was handed to the batcher
C25_Witness ==
  /\ Len(hook.handed) = 1
  /\ NotOverridden(1)
  /\ SamplingOf(hook.config).samplingRate = Number(1, 4)
  /\ hook.sampled[1].context.pr = Number(8, 1)
  /\ hook.handed[1].request_id = RequestId(1)
  /\ ~ProbabilityBelow(RequestId(1), Number(1, 2))

\* the last step was an authorised POST /run that reached the service (run
\* or runRange), issued while an aggregation job was running
PostWhileRunning ==
  /\ aggregator.reply.request = "post"
  /\ aggregator.reply.running
  /\ aggregator.reply.reached # "none"

\* C26 as stated: every POST /aggregator/run that reaches run or runRange
\* while an aggregation job is running, and is not refused as invalid, is
\* answered 409, and at most one job runs at a time.
C26_Original ==
  /\ Cardinality(aggregator.jobs) <= 1
  /\ (PostWhileRunning /\ aggregator.reply.status # 400)
       => aggregator.reply.status = 409

\* C26 (amended): a call of run or runRange made while an aggregation job is
\* running (by POST /run, by the interval timer or by start) starts no
\* job; the POST is answered at once, with 409 exactly when its call reached
\* runBatches, that is when the range was valid or run() found a pending
\* window, and otherwise with 400 (invalid range), 200 (no pending window)
\* or 500 (more than MAX_WINDOWS pending windows); busy is set exactly while
\* a job runs, and at most one job runs at a time.
C26_BusyRejection ==
  /\ [](/\ Cardinality(aggregator.jobs) <= 1
        /\ aggregator.busy <=> aggregator.jobs # {}
        /\ PostWhileRunning =>
             /\ aggregator.reply.status \in {200, 400, 409, 500}
             /\ aggregator.reply.status = 409
                  <=> aggregator.reply.reached = "runBatches")
  /\ [][(aggregator.busy
          /\ aggregator'.reply.request \in {"post", "timer", "start"})
          => aggregator'.jobs = aggregator.jobs]_vars

\* a POST /run that reached runBatches while a job of two batches was
\* awaiting its second batch was answered 409, and that job is the only one
C26_Witness ==
  /\ PostWhileRunning
  /\ aggregator.reply.status = 409
  /\ \E job \in aggregator.jobs :
       aggregator.jobs = {job} /\ job.i = 2 /\ Len(job.batches) = 2

\* C27: a delivery that passes the gate starts with attempt 1 in flight; the
\* attempts of a call are numbered 1..MAX_RETRIES; a successful attempt ends
\* the call with true; a failed attempt before the last is followed by the
\* backoff and the next attempt; false is returned by a failed last attempt
\* only; and every call ends.
C27_BoundedRetryLoop ==
  /\ [](\A c \in calls : c.attempt \in 1..MAX_RETRIES)
  /\ [][(delivered' = delivered + 1 /\ ev'.gate = "allowed") =>
          calls' = {[task |-> 0, attempt |-> 1, pc |-> "fetch"]}]_vars
  /\ [][\A c \in calls :
          (c.pc = "fetch" /\ ev'.outcome # "none") =>
            /\ ev'.outcome = "ok" => (ev'.result = "true" /\ calls' = {})
            /\ ev'.result = "true" => ev'.outcome = "ok"
            /\ ev'.result = "false" =>
                 /\ ev'.outcome = "fail"
                 /\ c.attempt = MAX_RETRIES
                 /\ calls' = {}
            /\ (ev'.outcome = "fail" /\ c.attempt < MAX_RETRIES) =>
                 /\ ev'.result = "none"
                 /\ calls' = {[c EXCEPT !.pc = "backoff"]}]_vars
  /\ [][\A c \in calls :
          (c.pc = "backoff" /\ calls' # calls) =>
            calls' = {[c EXCEPT !.pc = "fetch", !.attempt = c.attempt + 1]}
         ]_vars
  /\ (calls # {}) ~> (calls = {})

\* the first delivery has just returned false: its last attempt failed
C27_Witness ==
  /\ delivered = 1
  /\ calls = {}
  /\ ev.outcome = "fail"
  /\ ev.result = "false"
  /\ runs.fail = 1

\* C28: a delivery of a non-empty batch entered while the breaker is OPEN
\* and at least the reset window has passed since lastFailureTime is let
\* through: in that step the breaker becomes HALF_OPEN with successCount 0
\* (nothing else of it changes) and the one call it admits has its first
\* transport attempt in flight, no attempt having returned yet; and no call
\* is ever in flight while the breaker is OPEN.
C28_ProbeAfterWindow ==
  /\ [](calls # {} => circuitState.state # "OPEN")
  /\ [][(/\ delivered' = delivered + 1
          /\ ev'.gate # "empty"
          /\ circuitState.state = "OPEN"
          /\ now - circuitState.lastFailureTime >= CIRCUIT_RESET_MS) =>
           /\ ev'.gate = "allowed"
           /\ ev'.outcome = "none"
           /\ circuitState' = [circuitState EXCEPT !.state = "HALF_OPEN",
                                                   !.successCount = 0]
           /\ calls' = {[task |-> 0, attempt |-> 1, pc |-> "fetch"]}]_vars

\* the breaker had opened, the reset window has passed, and the delivery
\* just entered made it HALF_OPEN with its first attempt in flight
C28_Witness ==
  /\ circuitState.state = "HALF_OPEN"
  /\ circuitState.successCount = 0
  /\ circuitState.failureCount = CIRCUIT_THRESHOLD
  /\ now - circuitState.lastFailureTime >= CIRCUIT_RESET_MS
  /\ ev.gate = "allowed"
  /\ calls = {[task |-> 0, attempt |-> 1, pc |-> "fetch"]}

\* C29: a success applied while the breaker is CLOSED sets failureCount to 0
\* and changes nothing else of the breaker, which stays CLOSED; so in
\* CLOSED failureCount is the number of failures applied since the last
\* success, and failures separated by a success do not add up.
C29_SuccessResetsCount ==
  /\ [](circuitState.state = "CLOSED" =>
          circuitState.failureCount = runs.fail)
  /\ [][(circuitState.state = "CLOSED" /\ AppliesSuccess) =>
          /\ circuitState' = [circuitState EXCEPT !.failureCount = 0]
          /\ circuitState'.state = "CLOSED"
          /\ runs'.fail = 0]_vars

\* failures had been counted in CLOSED (lastFailureTime is set) and the
\* success just applied has set failureCount to 0
C29_Witness ==
  /\ circuitState.state = "CLOSED"
  /\ circuitState.lastFailureTime # NULL
  /\ circuitState.failureCount = 0
  /\ ev.applied = "success"
  /\ delivered = CIRCUIT_THRESHOLD

\* the breaker is OPEN, the reset window has passed since lastFailureTime,
\* and the deliveries left within the bound of the model are enough for the
\* probes
ReadyToRecover ==
  /\ circuitState.state = "OPEN"
  /\ now - circuitState.lastFailureTime >= CIRCUIT_RESET_MS
  /\ delivered + HALF_OPEN_SUCCESSES <= MaxDelivers

\* the last step was neither a failed transport attempt nor the delivery of
\* an empty batch
GoodStep == ev.outcome \notin {"fail", "thrown"} /\ ev.gate # "empty"

\* C30: if deliveries keep being made, then whenever the breaker is OPEN
\* with the reset window passed and from then on every transport attempt
\* succeeds and every delivery is of a non-empty batch, the breaker is
\* eventually CLOSED again, by deliveries alone.
C30_AutomaticRecovery ==
  WF_vars(DeliverStep) =>
    []((ReadyToRecover /\ []GoodStep) => <>(circuitState.state = "CLOSED"))

\* five failed deliveries had opened the breaker and the next three, made
\* after the reset window, have closed it again
C30_Witness ==
  /\ circuitState = createInitialCircuitState
  /\ runs.succ = HALF_OPEN_SUCCESSES
  /\ delivered = CIRCUIT_THRESHOLD + HALF_OPEN_SUCCESSES
  /\ now >= CIRCUIT_RESET_MS
  /\ calls = {}

\* C31: the breaker is well formed in every reachable state: successCount is
\* 0, 1 or 2 and is non-zero only in HALF_OPEN; in CLOSED failureCount is
\* below the threshold; in OPEN and HALF_OPEN lastFailureTime is set and
\* failureCount is at least the threshold.
C31_WellFormed ==
  /\ circuitState.state \in {"CLOSED", "OPEN", "HALF_OPEN"}
  /\ circuitState.successCount \in 0..(HALF_OPEN_SUCCESSES - 1)
  /\ circuitState.successCount # 0 => circuitState.state = "HALF_OPEN"
  /\ circuitState.state = "CLOSED" =>
       circuitState.failureCount \in 0..(CIRCUIT_THRESHOLD - 1)
  /\ circuitState.state \in {"OPEN", "HALF_OPEN"} =>
       /\ circuitState.lastFailureTime # NULL
       /\ circuitState.failureCount >= CIRCUIT_THRESHOLD

\* a breaker that opened after five failed deliveries is HALF_OPEN with two
\* of its three probes counted
C31_Witness ==
  /\ circuitState.state = "HALF_OPEN"
  /\ circuitState.successCount = HALF_OPEN_SUCCESSES - 1
  /\ circuitState.failureCount >= CIRCUIT_THRESHOLD
  /\ circuitState.lastFailureTime # NULL
  /\ delivered = CIRCUIT_THRESHOLD + HALF_OPEN_SUCCESSES - 1

\* C32: the recent-ids window never holds more than maxDedupeSize ids (1000
\* in the code) and holds none twice; an accepted add() appends its id, after
\* dropping the oldest recorded id if the window was full; a duplicate add()
\* and every flush step (a snapshot taken, an attempt settled or retried)
\* leave the window as it was.
C32_DedupWindow ==
  /\ [](Len(recentRequestIds) <= maxDedupeSize)
  /\ [](Cardinality(Range(recentRequestIds)) = Len(recentRequestIds))
  /\ [][/\ added' = added => recentRequestIds' = recentRequestIds
        /\ added' # added =>
             \/ recentRequestIds' = recentRequestIds
             \/ \E id \in Ids \ Range(recentRequestIds) :
                  recentRequestIds' =
                    Append(IF Len(recentRequestIds) = maxDedupeSize
                           THEN Tail(recentRequestIds)
                           ELSE recentRequestIds, id)]_vars

\* the window was full with id 1 the oldest, and the event of id 1 has been
\* flushed; one more accepted add() has evicted id 1 and kept the others
C32_Witness ==
  /\ added = maxDedupeSize + 1
  /\ Len(recentRequestIds) = maxDedupeSize
  /\ recentRequestIds[1] = 2
  /\ Len(snapshots) >= 1
  /\ Event(1, 1) \in Range(snapshots[1])

\* the events of s are listed in the order in which add() accepted them
InAddOrder(s) ==
  \A i \in 1..Len(s), j \in 1..Len(s) : i < j => s[i].seq < s[j].seq

\* C33: the pending queue and every flush snapshot list their events in the
\* order in which add() accepted them; every event of an earlier snapshot
\* was accepted before every event of a later snapshot, and every event of a
\* snapshot before every event still pending.
C33_FifoOrder ==
  /\ InAddOrder(queue)
  /\ \A i \in 1..Len(snapshots) :
       /\ InAddOrder(snapshots[i])
       /\ InAddOrder(snapshots[i] \o queue)
       /\ \A j \in 1..Len(snapshots) :
            i < j => InAddOrder(snapshots[i] \o snapshots[j])

\* two snapshots have been taken, the later one of several events, and an
\* event accepted since is pending
C33_Witness ==
  /\ Len(snapshots) >= 2
  /\ Len(snapshots[2]) >= 2
  /\ Len(queue) >= 1

\* C34: the batcher is Idle or Flushing (the flag is set exactly while one
\* activation of autoFlush is suspended) and every flush that enters
\* Flushing returns it to Idle, whether the delivery succeeds, finally fails
\* or the sendFunction rejects; add() and the timer callback complete
\* normally in every state, and once the batcher is Idle again the timer
\* callback takes what is pending into the next snapshot.
C34_FlushReturnsToIdle ==
  /\ [](isFlushing <=> Cardinality(tasks) = 1)
  /\ [](~isFlushing <=> tasks = {})
  /\ [](added < MaxAdds => ENABLED TurnStep)
  /\ [](flushTimer => ENABLED TimerFire)
  /\ [](~isFlushing /\ flushTimer /\ queue # <<>> =>
          ENABLED (TimerFire /\ TakesSnapshot))
  /\ isFlushing ~> ~isFlushing

\* the sendFunction has rejected on the last attempt of a flush and the
\* batcher is Idle again, with events that arrived meanwhile still pending
C34_Witness ==
  /\ ev.outcome = "thrown"
  /\ ~isFlushing
  /\ tasks = {}
  /\ calls = {}
  /\ Len(snapshots) >= 1
  /\ queue # <<>>

\* C35 as stated: immediately after any add() returns, the pending queue
\* holds fewer than batchSize events or a flush is in flight.
C35_Original ==
  [][added' # added => (Len(queue') < batchSize \/ isFlushing')]_vars

\* C35 (amended): immediately after an add() that accepted its event
\* returns, the pending queue holds fewer than batchSize events or a flush
\* is in flight; an add() dropped as a duplicate returns before the size
\* check and leaves the queue and the flush state as they were, whatever
\* the length of the queue.
C35_QueueBound ==
  [][/\ AcceptedAdd => (Len(queue') < batchSize \/ isFlushing')
     /\ (added' # added /\ ~AcceptedAdd) =>
          (queue' = queue /\ isFlushing' = isFlushing
             /\ snapshots' = snapshots)]_vars

\* an accepted add() found batchSize events pending and no flush in flight
\* (they had arrived during a flush that has ended since): its flush took
\* them all
C35_Witness ==
  /\ isFlushing
  /\ queue = <<>>
  /\ Len(snapshots) >= 2
  /\ Len(Last(snapshots)) > batchSize
  /\ Last(Last(snapshots)).seq = added

\* the number of places (positions of the pending queue and of the
\* snapshots taken so far) that hold event e
Places(e) ==
  Cardinality({i \in 1..Len(queue) : queue[i] = e})
    + Cardinality({p \in (1..Len(snapshots)) \X (1..MaxAdds) :
                     p[2] <= Len(snapshots[p[1]]) /\ snapshots[p[1]][p[2]] = e})

\* C36: every event accepted by add() is from then on in exactly one place,
\* the pending queue or one flush snapshot: the accepted event is pending
\* or in the snapshot its own add() triggered, no event is ever held twice,
\* no step loses an event, and an event that leaves the queue is in the
\* snapshot taken by that step.
C36_Conservation ==
  /\ [](\A e \in AllEvents : Places(e) = 1)
  /\ [][/\ AllEvents \subseteq AllEvents'
        /\ SnapshotEvents \subseteq SnapshotEvents'
        /\ AcceptedAdd =>
             \E e \in AllEvents' \ AllEvents :
               /\ e.seq = added'
               /\ AllEvents' = AllEvents \cup {e}
        /\ ~AcceptedAdd => AllEvents' = AllEvents
        /\ \A e \in Range(queue) \ Range(queue') :
             /\ TakesSnapshot
             /\ e \in Range(Last(snapshots'))]_vars

\* every add() was accepted; the events are spread over a snapshot whose
\* delivery finally failed, a snapshot in flight and the pending queue
C36_Witness ==
  /\ added = MaxAdds
  /\ Cardinality(AllEvents) = MaxAdds
  /\ Len(snapshots) = 2
  /\ queue # <<>>
  /\ circuitState.failureCount >= 1
  /\ isFlushing

\* C37: with the sender called only by autoFlush under its single-flight
\* guard, no transport attempt (or backoff between attempts) is in progress
\* while the breaker is OPEN; the breaker becomes OPEN only in the step that
\* ends a sender call, and the only change made to an OPEN breaker is the
\* move to HALF_OPEN by a call the gate lets through, before its first
\* attempt: no success or failure transition is applied in OPEN.
C37_NoAttemptWhileOpen ==
  /\ [](calls # {} => circuitState.state # "OPEN")
  /\ [][(circuitState.state # "OPEN" /\ circuitState'.state = "OPEN") =>
          (calls # {} /\ calls' = {})]_vars
  /\ [][(circuitState.state = "OPEN" /\ circuitState' # circuitState) =>
          /\ calls = {} /\ calls' # {}
          /\ circuitState' = [circuitState EXCEPT !.state = "HALF_OPEN",
                                                  !.successCount = 0]]_vars
  /\ [][circuitState.state = "OPEN" =>
          (runs'.fail = runs.fail /\ runs'.succ \in {0, runs.succ})]_vars

\* failed flushes had opened the breaker; after the reset window a retry of
\* the batcher was let through and its probe is in flight in HALF_OPEN
C37_Witness ==
  /\ circuitState.state = "HALF_OPEN"
  /\ circuitState.successCount = 0
  /\ \E c \in calls : c.task # 0 /\ c.pc = "fetch"
  /\ isFlushing
  /\ now >= circuitState.lastFailureTime + CIRCUIT_RESET_MS

\* the step is an invocation of the overridden res.end of request r
EndCall(r) == responses[r] # NULL /\ responses'[r] = responses[r] + 1

\* the events of request r that add() accepted
EventsOf(r) == {e \in AllEvents : e.request_id = r}

\* C38 as stated: every invocation of res.end calls batcher.add with an
\* event of the request's id, and at most one event of a request is ever
\* queued however often its res.end is invoked.
C38_Original ==
  /\ [][\A r \in Ids : EndCall(r) =>
          /\ added' = added + 1
          /\ AllEvents' \ AllEvents \subseteq {Event(r, added')}]_vars
  /\ [](\A r \in Ids : Cardinality(EventsOf(r)) <= 1)

\* C38 (amended): every invocation of res.end calls batcher.add with an
\* event of the request's id (there is no completion guard); add() drops it
\* while the id is in the dedup window and queues it otherwise, so a request
\* has at most as many events queued as res.end invocations, and two of them
\* only if at least maxDedupeSize events of other requests were accepted
\* between them.
C38_DedupOfRepeatedEnd ==
  /\ [][\A r \in Ids : EndCall(r) =>
          /\ added' = added + 1
          /\ AllEvents' \ AllEvents \subseteq {Event(r, added')}
          /\ r \in Range(recentRequestIds) => AllEvents' = AllEvents
          /\ r \notin Range(recentRequestIds) =>
               Event(r, added') \in AllEvents']_vars
  /\ [](\A r \in Ids :
          /\ responses[r] = NULL => EventsOf(r) = {}
          /\ responses[r] # NULL =>
               Cardinality(EventsOf(r)) <= responses[r])
  /\ [](\A r \in Ids : \A e1 \in EventsOf(r), e2 \in EventsOf(r) :
          e1.seq < e2.seq =>
            Cardinality({e \in AllEvents \ EventsOf(r) :
                           e1.seq < e.seq /\ e.seq < e2.seq})
              >= maxDedupeSize)

\* res.end of request 1 was invoked twice in a row: add() was called twice
\* and the second event was dropped
C38_Witness ==
  /\ responses[1] = 2
  /\ added = 2
  /\ AllEvents = {Event(1, 1)}

\* C39: a direct call of the sender with an empty batch returns true, and
\* one the gate refuses returns false, without a transport attempt, without
\* a breaker transition and without touching the batcher, whatever the
\* state of the breaker; a timer trigger that finds the pending queue empty
\* takes no snapshot, starts no sender call, leaves the breaker alone and
\* does not set the flushing flag.
C39_NoEffect ==
  /\ [][ev'.gate \in {"empty", "denied"} =>
          /\ ev'.result = (IF ev'.gate = "empty" THEN "true" ELSE "false")
          /\ ev'.transport = "none" /\ ev'.applied = "none"
          /\ calls' = calls
          /\ circuitState' = circuitState
          /\ runs' = runs
          /\ UNCHANGED batcherVars]_vars
  /\ [][(queue = <<>> /\ added' = added) =>
          /\ snapshots' = snapshots
          /\ queue' = <<>>
          /\ ~isFlushing =>
               (~isFlushing' /\ {c \in calls' : c.task # 0} = {})]_vars
  /\ [](flushTimer /\ queue = <<>> =>
          /\ ENABLED TimerFire
          /\ ~ENABLED (TimerFire /\ ~UNCHANGED <<batcherVars, calls,
                                                  circuitState, runs>>))

\* failed flushes have opened the breaker; the sender, called directly with
\* an empty batch, has returned true and the breaker is still OPEN, the
\* batcher Idle with nothing pending
C39_Witness ==
  /\ ev.gate = "empty"
  /\ ev.result = "true"
  /\ circuitState.state = "OPEN"
  /\ calls = {}
  /\ queue = <<>>
  /\ ~isFlushing
  /\ flushTimer

====
